---------------------------- MODULE Spec2Model ----------------------------
(***************************************************************************)
(* A model of the real-time signal path of the LPF audio unit:             *)
(*   - ParameterRamper        (Shared/AudioUnit/Support/ParameterRamper.hpp)*)
(*   - KernelEventProcessor   (Shared/Kernel/KernelEventProcessor.hpp and   *)
(*                             Shared/AudioUnit/Support/...)                *)
(*   - FilterDSPKernel        (Shared/AudioUnit/Support/FilterDSPKernel.hpp)*)
(*   - InputBuffer            (Shared/Kernel/InputBuffer.hpp)               *)
(*   - BiquadFilter           (Shared/Kernel/BiquadFilter.cpp, .hpp) and    *)
(*     the FilterDSPKernel    (Shared/Kernel/FilterDSPKernel.hpp) using it  *)
(*                                                                         *)
(* Floating point values are modelled as integers; a float division is a   *)
(* rounded integer division (Quotient).  An unsigned 32 bit frame count is *)
(* held as its representative in -2^31 .. 2^31-1, so that a subtraction    *)
(* that wraps below zero yields the negative representative of the huge    *)
(* unsigned value.                                                         *)
(***************************************************************************)
EXTENDS Integers, Sequences, FiniteSets, TLC

VARIABLES
    \* ---- ParameterRamper under arbitrary calls (SpecRamper)
    ramper,     \* the fields of one ParameterRamper<T>
    ctlPc,      \* control thread inside setValue: "idle" | "stored"
    h,          \* history of the calls made on the ramper (not program state)
    \* ---- KernelEventProcessor<T>::render (SpecLoop)
    pc,         \* render thread: "idle" | "loop" | "events" | "done"
    lp,         \* arguments and locals of the render call in progress
    calls,      \* render steps and event handler calls render made, in order
    \* ---- KernelEventProcessor<FilterDSPKernel>::processAndRender (SpecProcess)
    proc,       \* inputs_, outputs_, ins_, outs_, bypassed_ of the processor
    kern,       \* cutoff_ and resonance_ of the FilterDSPKernel
    ib,         \* the InputBuffer inputBuffer_
    mem,        \* sample storage, as bytes: "in" of the InputBuffer, "out" of the host
    outList,    \* the AudioBufferList* output the host passes
    st,         \* status returned, and what the call in progress did
    \* ---- two FilterDSPKernel of AudioUnit/Support given the same calls (SpecBypass)
    bk,         \* the kernels: "byp", whose bypass is switched, and "ref", never bypassed
    bio,        \* the sample buffers of each kernel for the call in progress
    bst,        \* frames rendered so far; parameters agreed when the call began
    \* ---- BiquadFilter under arbitrary calls (SpecBiquad)
    bq,         \* the members of one BiquadFilter
    bh,         \* history of the calls made on the filter (not program state)
    \* ---- FilterDSPKernel of Shared/Kernel with its filter_ (SpecKernel)
    fk,         \* the members of the kernel
    fh,         \* processing started, channel count, what the last operation did
    \* ---- one FilterDSPKernel of AudioUnit/Support and its filter state (SpecState)
    sk,         \* the kernel
    sh,         \* what the last operation did; frames rendered and values set so far
    \* ---- the three input buffer classes given the same calls (SpecInput)
    inb,       \* the input buffer of each of the three classes
    ih,        \* what the last call did: the list handed to the pull block
    \* ---- BiquadFilter with magnitudes on another thread (SpecTorn)
    tq,        \* a BiquadFilter whose calculateParams runs statement by statement
    tr,        \* the magnitudes call of the UI thread: the coefficients read so far
    \* ---- LFO (SpecLFO)
    lfo,       \* an LFO: size_, phase_, increment_
    lt         \* the thread that calls it: its position and what the last call did

rampVars == <<ramper, ctlPc, h>>
loopVars == <<pc, lp, calls>>
procVars == <<proc, kern, ib, mem, outList, st>>
bypVars == <<bk, bio, bst>>
filtVars == <<bq, bh, fk, fh>>
stateVars == <<sk, sh>>
inputVars == <<inb, ih>>
tornVars == <<tq, tr>>
lfoVars == <<lfo, lt>>
vars == <<rampVars, loopVars, procVars, bypVars, filtVars, stateVars, inputVars, tornVars, lfoVars>>

\* what each specification leaves alone
notRamp == <<loopVars, procVars, bypVars, filtVars, stateVars, inputVars, tornVars, lfoVars>>
notLoop == <<rampVars, procVars, bypVars, filtVars, stateVars, inputVars, tornVars, lfoVars>>
notProc == <<rampVars, bypVars, filtVars, stateVars, inputVars, tornVars, lfoVars>>
notByp == <<rampVars, procVars, filtVars, stateVars, inputVars, tornVars, lfoVars>>
notFilt == <<rampVars, loopVars, procVars, bypVars, stateVars, inputVars, tornVars, lfoVars>>
notState == <<rampVars, loopVars, procVars, bypVars, filtVars, inputVars, tornVars, lfoVars>>
notInput == <<rampVars, loopVars, procVars, bypVars, filtVars, stateVars, tornVars, lfoVars>>
notTorn == <<rampVars, loopVars, procVars, bypVars, filtVars, stateVars, inputVars, lfoVars>>
notLfo == <<rampVars, loopVars, procVars, bypVars, filtVars, stateVars, inputVars, tornVars>>

----------------------------------------------------------------------------
(***************************************************************************)
(* Bounds of the model.                                                    *)
(***************************************************************************)
MaxRamp == 3          \* longest ramp duration / stepBy count tried
MaxChanges == 2       \* cap on the value of the change counter
MaxFrames == 3        \* largest frameCount of a render call
MaxEvents == 2        \* longest event list of a render call
MaxChannels == 2            \* largest channel count of a format
MaxFramesToRender == 2      \* maxFramesToRender of startProcessing
MaxStream == 2              \* frames two kernels are given in all their calls
MaxSets == 1                \* setParameterValue calls two kernels are given

ParamValues == {0, 12}        \* values a parameter is set to
InitialValues == {6}          \* values given to the constructor

Int32Max == 2147483647

Max(a, b) == IF a >= b THEN a ELSE b
Min(a, b) == IF a <= b THEN a ELSE b
Abs(a) == IF a >= 0 THEN a ELSE -a

\* T(a) / T(d) for a float type T: the quotient rounded to the nearest
\* representable value (here: the nearest integer).
Quotient(a, d) == (2 * a + d) \div (2 * d)

\* std::atomic<int32_t>::fetch_add(1): wraps at the 32 bit boundary.
Int32Inc(c) == IF c = Int32Max THEN (-Int32Max) - 1 ELSE c + 1

----------------------------------------------------------------------------
(***************************************************************************)
(* ParameterRamper<T>                                                      *)
(***************************************************************************)

setImmediate(r, value) ==
    [r EXCEPT !.offset_ = value, !.pendingValue_ = value,
              !.slope_ = 0, !.samplesRemaining_ = 0]

\* ParameterRamper(T value) : changeCounter_(0) { setImmediate(value); }
ParameterRamper(value) ==
    setImmediate([pendingValue_ |-> 0, slope_ |-> 0, offset_ |-> 0,
                  samplesRemaining_ |-> 0, lastUpdateCounter_ |-> 0,
                  changeCounter_ |-> 0], value)

\* a ramp evaluated one sample late
getCurrent_late(r) == r.slope_ * (r.samplesRemaining_ + 1) + r.offset_

getCurrent(r) == r.slope_ * r.samplesRemaining_ + r.offset_

getValue(r) == r.pendingValue_

isRamping(r) == r.samplesRemaining_ # 0

\* the ramper getAndStep leaves behind when it forgets to move along the ramp
getAndStep_stuck(r) == r

\* a reset that takes the value the ramp is heading for
ParameterRamper_reset_toOffset(r) ==
    [r EXCEPT !.pendingValue_ = r.offset_, !.slope_ = 0, !.samplesRemaining_ = 0,
              !.changeCounter_ = 0, !.lastUpdateCounter_ = 0]

\* setValue(T value), first statement: pendingValue_ = value
storePending(r, value) == [r EXCEPT !.pendingValue_ = value]

\* setValue(T value), second statement: atomic_fetch_add(&changeCounter_, 1)
bumpChangeCounter(r) == [r EXCEPT !.changeCounter_ = Int32Inc(@)]

setValue(r, value) == bumpChangeCounter(storePending(r, value))

\* a ramp that starts from the value the ramp before it was heading for
startRamp_fromOldTarget(r, duration) ==
    IF duration = 0
    THEN setImmediate(r, r.pendingValue_)
    ELSE [r EXCEPT !.slope_ = Quotient(r.offset_ - r.pendingValue_, duration),
                   !.samplesRemaining_ = duration,
                   !.offset_ = r.pendingValue_]

startRamp(r, duration) ==
    IF duration = 0
    THEN setImmediate(r, r.pendingValue_)
    ELSE [r EXCEPT !.slope_ = Quotient(getCurrent(r) - r.pendingValue_, duration),
                   !.samplesRemaining_ = duration,
                   !.offset_ = r.pendingValue_]

\* TRUE when startRamping sees a change counter it has not observed yet
changeSeen(r) == r.lastUpdateCounter_ # r.changeCounter_

\* a ramp restarted on every call, whatever the counter says
startRamping_always(r, duration) ==
    startRamp([r EXCEPT !.lastUpdateCounter_ = r.changeCounter_], duration)

startRamping(r, duration) ==
    IF changeSeen(r)
    THEN startRamp([r EXCEPT !.lastUpdateCounter_ = r.changeCounter_], duration)
    ELSE r

\* setValue(T value, AUAudioFrameCount duration)
setValueRamped(r, value, duration) == startRamping(setValue(r, value), duration)

step(r) ==
    IF r.samplesRemaining_ # 0
    THEN [r EXCEPT !.samplesRemaining_ = @ - 1]
    ELSE r

\* the value getAndStep returns
getAndStepValue(r) ==
    IF r.samplesRemaining_ = 0 THEN r.pendingValue_ ELSE getCurrent(r)

\* the ramper getAndStep leaves behind
getAndStep(r) ==
    IF r.samplesRemaining_ = 0
    THEN r
    ELSE [r EXCEPT !.samplesRemaining_ = @ - 1]

\* stepBy without the comparison against the samples remaining
stepBy_unclamped(r, frameCount) ==
    [r EXCEPT !.samplesRemaining_ = @ - frameCount]

stepBy(r, frameCount) ==
    IF frameCount >= r.samplesRemaining_
    THEN [r EXCEPT !.samplesRemaining_ = 0]
    ELSE [r EXCEPT !.samplesRemaining_ = @ - frameCount]

ParameterRamper_reset(r) ==
    [setImmediate(r, r.pendingValue_) EXCEPT !.changeCounter_ = 0,
                                              !.lastUpdateCounter_ = 0]

----------------------------------------------------------------------------
(***************************************************************************)
(* SpecRamper: one ParameterRamper driven by every sequence of calls.  The *)
(* render thread calls startRamping / step / getAndStep / stepBy and the   *)
(* ramped setValue of a scheduled event; the control thread's setValue is  *)
(* two steps (the store, then the counter increment), between which the    *)
(* render thread may run.                                                  *)
(*                                                                         *)
(* h records what the calls did:                                           *)
(*   op      the last call                                                 *)
(*   ret     what the last call returned, when it was getAndStep (else 0)  *)
(*   began   the last call started a ramp (or snapped)                     *)
(*   target  pending value read by the most recent ramp start (v1)         *)
(*   dur     duration of the most recent ramp start (0 for a snap)         *)
(*   steps   single steps taken since the most recent ramp start           *)
(*   stored  pendingValue_ was written since the most recent ramp start    *)
(*   sets    setValue calls completed since the last startRamping / reset  *)
(*   wasDone samplesRemaining_ was 0 when the last call began              *)
(*   last    argument of the most recent setValue (constructor value if    *)
(*           none)                                                         *)
(***************************************************************************)

HistInit(v) ==
    [op |-> "construct", ret |-> 0, began |-> TRUE, target |-> v,
     dur |-> 0, steps |-> 0, stored |-> FALSE, sets |-> 0, wasDone |-> TRUE,
     last |-> v]

\* history after a call that (possibly) began a ramp of duration d on r
HistRamp(hh, r, d, didBegin) ==
    IF didBegin
    THEN [hh EXCEPT !.began = TRUE, !.target = r.pendingValue_,
                    !.dur = d, !.steps = 0, !.stored = FALSE]
    ELSE [hh EXCEPT !.began = FALSE]

RamperInit ==
    \E v \in InitialValues :
        /\ ramper = ParameterRamper(v)
        /\ ctlPc = "idle"
        /\ h = HistInit(v)

\* control thread, setValue(value): pendingValue_ = value
SetValueStore(value) ==
    /\ ctlPc = "idle"
    /\ ramper.changeCounter_ < MaxChanges
    /\ ramper' = storePending(ramper, value)
    /\ ctlPc' = "stored"
    /\ h' = [h EXCEPT !.op = "store", !.ret = 0, !.stored = TRUE, !.began = FALSE,
                      !.wasDone = ~isRamping(ramper), !.last = value]
    /\ UNCHANGED notRamp

\* control thread, setValue(value): the counter increment
SetValueBump ==
    /\ ctlPc = "stored"
    /\ ramper' = bumpChangeCounter(ramper)
    /\ ctlPc' = "idle"
    /\ h' = [h EXCEPT !.op = "setValue", !.ret = 0, !.sets = @ + 1, !.began = FALSE,
                      !.wasDone = ~isRamping(ramper)]
    /\ UNCHANGED notRamp

\* render thread: startRamping(duration)
StartRamping(duration) ==
    /\ ramper' = startRamping(ramper, duration)
    /\ h' = [HistRamp(h, ramper, duration, changeSeen(ramper))
                EXCEPT !.op = "startRamping", !.ret = 0, !.sets = 0,
                       !.wasDone = ~isRamping(ramper)]
    /\ UNCHANGED <<ctlPc, notRamp>>

\* render thread: setValue(value, duration) of a scheduled parameter event
SetValueRamped(value, duration) ==
    /\ ramper.changeCounter_ < MaxChanges
    /\ ramper' = setValueRamped(ramper, value, duration)
    /\ h' = [HistRamp(h, setValue(ramper, value), duration,
                      changeSeen(setValue(ramper, value)))
                EXCEPT !.op = "setValueRamped", !.ret = 0, !.sets = 0,
                       !.wasDone = ~isRamping(ramper), !.last = value]
    /\ UNCHANGED <<ctlPc, notRamp>>

\* render thread: step()
Step ==
    /\ ramper' = step(ramper)
    /\ h' = [h EXCEPT !.op = "step", !.ret = 0, !.steps = Min(@ + 1, MaxRamp + 1),
                      !.began = FALSE, !.wasDone = ~isRamping(ramper)]
    /\ UNCHANGED <<ctlPc, notRamp>>

\* render thread: getAndStep()
GetAndStep ==
    /\ ramper' = getAndStep(ramper)
    /\ h' = [h EXCEPT !.op = "getAndStep", !.ret = getAndStepValue(ramper),
                      !.steps = Min(@ + 1, MaxRamp + 1),
                      !.began = FALSE, !.wasDone = ~isRamping(ramper)]
    /\ UNCHANGED <<ctlPc, notRamp>>

\* render thread: stepBy(frameCount)
StepBy(frameCount) ==
    /\ ramper' = stepBy(ramper, frameCount)
    /\ h' = [h EXCEPT !.op = "stepBy", !.ret = 0,
                      !.steps = Min(@ + frameCount, MaxRamp + 1),
                      !.began = FALSE, !.wasDone = ~isRamping(ramper)]
    /\ UNCHANGED <<ctlPc, notRamp>>

\* reset(), from the kernel's setFormat / reset
Reset ==
    /\ ramper' = ParameterRamper_reset(ramper)
    /\ h' = [HistRamp(h, ramper, 0, TRUE)
                EXCEPT !.op = "reset", !.ret = 0, !.sets = 0,
                       !.wasDone = ~isRamping(ramper)]
    /\ UNCHANGED <<ctlPc, notRamp>>

RamperNext ==
    \/ \E v \in ParamValues : SetValueStore(v)
    \/ SetValueBump
    \/ \E d \in 0..MaxRamp : StartRamping(d)
    \/ \E v \in ParamValues, d \in 0..MaxRamp : SetValueRamped(v, d)
    \/ Step
    \/ GetAndStep
    \/ \E n \in 0..MaxRamp : StepBy(n)
    \/ Reset


----------------------------------------------------------------------------
(***************************************************************************)
(* KernelEventProcessor<T>::render and renderEventsUntil.  The two copies  *)
(* of the class (Shared/Kernel and Shared/AudioUnit/Support) have the same *)
(* loop.  An event list is a sequence of events; the pointer to an event   *)
(* is its index, and nullptr is the index after the last one.              *)
(***************************************************************************)

EventTypes == {"Parameter", "MIDI", "Other"}

T0Values == {5}       \* timestamp->mSampleTime of a render call

\* eventSampleTime of the events tried, for a call that starts at t0: from
\* one sample before the buffer to one sample after its largest extent
EventTimes(t0) == (t0 - 1) .. (t0 + MaxFrames + 1)

Events(t0) == [eventSampleTime : EventTimes(t0), eventType : EventTypes]

RECURSIVE SeqsUpTo(_, _)
SeqsUpTo(S, n) ==
    IF n = 0 THEN {<<>>}
    ELSE LET shorter == SeqsUpTo(S, n - 1)
         IN  shorter \cup {Append(q, e) : q \in {x \in shorter : Len(x) = n - 1}, e \in S}

EventLists(t0) == SeqsUpTo(Events(t0), MaxEvents)

nullptr(list) == Len(list) + 1

\* event->head.next
next(list, event) == event + 1

\* AUAudioFrameCount(x): the conversion of a 64 bit sample count to an
\* unsigned 32 bit frame count; the model's counts stay far below 2^31, where
\* the conversion keeps the value
AUAudioFrameCount(x) == IF x > Int32Max THEN x - Int32Max - Int32Max - 2 ELSE x

\* A sample time is a signed 64 bit count.  It is held as a count of small
\* size and a number of epochs of 2^32 samples added to it; an event without
\* the field epoch has none, and epoch is the number of epochs of now.
Epoch(e) == IF "epoch" \in DOMAIN e THEN e.epoch ELSE 0

\* the same loop with the segment measured from the start of the buffer
framesThisSegment_fromStart(list, event, now, t0, epoch) ==
    AUAudioFrameCount(Max(list[event].eventSampleTime - t0, 0))

\* auto framesThisSegment = AUAudioFrameCount(std::max(events->head.eventSampleTime - now, zero));
\* (t0 is not used by the code).  The conversion to 32 bits drops the
\* epochs of a positive difference; what it keeps of a difference whose
\* small part is negative is 2^32 minus that part, held as the negative part.
framesThisSegment(list, event, now, t0, epoch) ==
    IF Epoch(list[event]) = epoch
    THEN AUAudioFrameCount(Max(list[event].eventSampleTime - now, 0))
    ELSE IF Epoch(list[event]) > epoch
         THEN AUAudioFrameCount(list[event].eventSampleTime - now)
         ELSE 0

\* the loop condition looking one sample ahead
untilCondition_early(list, event, now, epoch) ==
    event # nullptr(list) /\ list[event].eventSampleTime <= now + 1

\* while (event != nullptr && event->head.eventSampleTime <= now)
untilCondition(list, event, now, epoch) ==
    /\ event # nullptr(list)
    /\ \/ Epoch(list[event]) < epoch
       \/ Epoch(list[event]) = epoch /\ list[event].eventSampleTime <= now

\* an if in the place of the while: back to the render loop after one event
pcAfterEvent_once == "loop"

\* where renderEventsUntil goes after the switch: to its loop condition
pcAfterEvent == "events"

\* the cursor left on the event just handled
advance_stuck(list, event) == event

\* event = event->head.next;
advance(list, event) == next(list, event)

\* switch (event->head.eventType) with every type taken for a parameter event
handlerFor_allParameter(eventType) == "doParameterEvent"

\* the call the switch of renderEventsUntil makes for an event
handlerFor(eventType) ==
    CASE eventType = "Parameter" -> "doParameterEvent"
      [] eventType = "MIDI" -> "doMIDIEvent"
      [] OTHER -> "none"

RenderCall(frames, offset) == [k |-> "renderFrames", n |-> frames, off |-> offset]
EventCall(list, event) == [k |-> handlerFor(list[event].eventType), i |-> event]

\* the locals of render when no call is in progress
LpInit == [t0 |-> 0, frameCount |-> 0, list |-> <<>>, now |-> 0, epoch |-> 0,
           framesRemaining |-> 0, events |-> 1]

LoopInit ==
    /\ pc = "idle"
    /\ lp = LpInit
    /\ calls = <<>>

\* render(timestamp, frameCount, events): the three declarations
RenderEnter(t0, frameCount, list) ==
    /\ lp' = [t0 |-> t0, frameCount |-> frameCount, list |-> list, now |-> t0,
              epoch |-> 0,
              framesRemaining |-> frameCount, events |-> 1]
    /\ calls' = <<>>
    /\ pc' = "loop"

\* render called by a host that has no call in progress
Render(t0, frameCount, list) == pc = "idle" /\ RenderEnter(t0, frameCount, list)

\* while (framesRemaining > 0) fails: render returns
LoopExit ==
    /\ pc = "loop"
    /\ lp.framesRemaining = 0
    /\ pc' = "done"
    /\ UNCHANGED <<lp, calls>>

\* if (events == nullptr) { renderFrames(framesRemaining, frameCount - framesRemaining); return; }
RenderRest ==
    /\ pc = "loop"
    /\ lp.framesRemaining # 0
    /\ lp.events = nullptr(lp.list)
    /\ calls' = Append(calls, RenderCall(lp.framesRemaining,
                                         lp.frameCount - lp.framesRemaining))
    /\ pc' = "done"
    /\ UNCHANGED lp

\* one segment: the frames up to the next event, then renderEventsUntil(now, events)
RenderSegment ==
    /\ pc = "loop"
    /\ lp.framesRemaining # 0
    /\ lp.events # nullptr(lp.list)
    /\ LET n == framesThisSegment(lp.list, lp.events, lp.now, lp.t0, lp.epoch)
       IN  IF n # 0
           THEN /\ calls' = Append(calls, RenderCall(n, lp.frameCount - lp.framesRemaining))
                \* now += AUEventSampleTime(framesThisSegment): a count of
                \* 2^32 - m frames is m samples less of the next epoch
                /\ lp' = [lp EXCEPT !.framesRemaining = @ - n, !.now = @ + n,
                                    !.epoch = IF n < 0 THEN @ + 1 ELSE @]
           ELSE UNCHANGED <<lp, calls>>
    /\ pc' = "events"

\* renderEventsUntil: one turn of its while loop
DispatchEvent ==
    /\ pc = "events"
    /\ untilCondition(lp.list, lp.events, lp.now, lp.epoch)
    /\ calls' = Append(calls, EventCall(lp.list, lp.events))
    /\ lp' = [lp EXCEPT !.events = advance(lp.list, lp.events)]
    /\ pc' = pcAfterEvent

\* renderEventsUntil: the while condition fails, return event
EventsReturn ==
    /\ pc = "events"
    /\ ~untilCondition(lp.list, lp.events, lp.now, lp.epoch)
    /\ pc' = "loop"
    /\ UNCHANGED <<lp, calls>>

\* the caller takes the return of render; its locals are gone
RenderReturn ==
    /\ pc = "done"
    /\ pc' = "idle"
    /\ lp' = LpInit
    /\ calls' = <<>>

\* the loop with a kernel T that only records the calls made on it
L_Render(t0, frameCount, list) == Render(t0, frameCount, list) /\ UNCHANGED notLoop
L_LoopExit == LoopExit /\ UNCHANGED notLoop
L_RenderRest == RenderRest /\ UNCHANGED notLoop
L_RenderSegment == RenderSegment /\ UNCHANGED notLoop
L_DispatchEvent == DispatchEvent /\ UNCHANGED notLoop
L_EventsReturn == EventsReturn /\ UNCHANGED notLoop
L_RenderReturn == RenderReturn /\ UNCHANGED notLoop

\* the host calls render with some start time, frame count and event list
L_RenderAny ==
    /\ pc = "idle"
    /\ \E t0 \in T0Values, n \in 0..MaxFrames :
         \E list \in EventLists(t0) : L_Render(t0, n, list)

LoopNext ==
    \/ L_RenderAny
    \/ L_LoopExit
    \/ L_RenderRest
    \/ L_RenderSegment
    \/ L_DispatchEvent
    \/ L_EventsReturn
    \/ L_RenderReturn

MaxFarEvents == 2

\* events whose eventSampleTime is one epoch before or after the start of the
\* call, or in its epoch, at the first frame of the buffer or one frame on
FarEvents(t0) ==
    [eventSampleTime : {t0, t0 + 1}, eventType : {"Parameter"}, epoch : {0 - 1, 0, 1}]

\* the host calls render with events scheduled in any epoch, in any order
F_RenderAny ==
    /\ pc = "idle"
    /\ \E t0 \in T0Values, n \in 0..MaxFrames :
         \E list \in SeqsUpTo(FarEvents(t0), MaxFarEvents) : L_Render(t0, n, list)

\* one pass of the body of the while loop of render, or its exit
LoopStep ==
    \/ L_LoopExit
    \/ L_RenderRest
    \/ L_RenderSegment
    \/ L_DispatchEvent
    \/ L_EventsReturn

FarNext ==
    \/ F_RenderAny
    \/ L_LoopExit
    \/ L_RenderRest
    \/ L_RenderSegment
    \/ L_DispatchEvent
    \/ L_EventsReturn
    \/ L_RenderReturn

----------------------------------------------------------------------------
(***************************************************************************)
(* KernelEventProcessor<FilterDSPKernel>::processAndRender of              *)
(* Shared/Kernel, with its InputBuffer.  Sample storage is kept as bytes,  *)
(* SizeofFloat bytes to a sample.  A pointer names a storage block ("in":  *)
(* the AVAudioPCMBuffer of the InputBuffer, "out": the host's output       *)
(* buffers) and a channel of it.                                           *)
(***************************************************************************)

SizeofFloat == 4

FilterParameterAddressCutoff == 1
FilterParameterAddressResonance == 2

\* cutoff_{float(400.0)}, resonance_{20.0}
InitialCutoff == 400
InitialResonance == 20

NullPtr == [blk |-> "null", ch |-> 0]
Ptr(blk, ch) == [blk |-> blk, ch |-> ch]

\* zeroed storage of MaxFramesToRender samples for each of n channels
Storage(n) == [c \in 1..n |-> [k \in 1..(SizeofFloat * MaxFramesToRender) |-> 0]]

\* the unsigned magnitude of a 32 bit count, as far as a buffer can tell: a
\* negative representative stands for a count of 2^31 or more
Extent(n) == IF n < 0 THEN Int32Max ELSE n

\* memcpy(dst + dstOff, src + srcOff, n), offsets and n in bytes; bytes that
\* fall outside the storage of dst or src are not stored
memcpy(dst, dstOff, src, srcOff, n) ==
    [k \in 1..Len(dst) |->
        IF k > dstOff /\ k - dstOff <= Extent(n) /\ k - dstOff + srcOff <= Len(src)
        THEN src[k - dstOff + srcOff]
        ELSE dst[k]]

\* the sample at frame i (from 0) of a channel's bytes
Float(bytes, i) == SubSeq(bytes, SizeofFloat * i + 1, SizeofFloat * i + SizeofFloat)

\* byte k of channel c as delivered by the upstream node
UpstreamByte(c, k) == 10 * c + k

\* vDSP_biquadm is not part of the repository: the sample it computes from an
\* input sample is represented by that sample with every byte marked
FilteredByte(b) == b + 100

\* the frames [off, off + n) of bytes replaced by their filtered samples
ApplyFilter(dst, src, off, n) ==
    [k \in 1..Len(dst) |->
        IF (k - 1) \div SizeofFloat >= off /\ (k - 1) \div SizeofFloat - off < Extent(n)
           /\ k <= Len(src)
        THEN FilteredByte(src[k])
        ELSE dst[k]]

PullBlocks == {"null", "ok", "fail", "failAfterWrite"}

\* the status a pull block returns
BlockStatus(block) == IF block = "ok" THEN "noErr" ELSE "kAudioUnitErr_Upstream"

\* the input storage after the pull block ran for frameCount frames
BlockWrites(block, storage, frameCount) ==
    IF block \in {"ok", "failAfterWrite"}
    THEN [c \in DOMAIN storage |->
            [k \in 1..Len(storage[c]) |->
                IF k <= SizeofFloat * frameCount THEN UpstreamByte(c, k) ELSE storage[c][k]]]
    ELSE storage

\* InputBuffer::setFormat
setFormat(channelCount, maxFrames) ==
    [allocated |-> TRUE, maxFramesToRender_ |-> maxFrames, frameLength |-> 0,
     list |-> [c \in 1..channelCount |->
                 [mData |-> Ptr("in", c), mDataByteSize |-> SizeofFloat * maxFrames]]]

\* InputBuffer::reset, and the InputBuffer before setFormat
InputBuffer_reset(b) ==
    [allocated |-> FALSE, maxFramesToRender_ |-> b.maxFramesToRender_,
     frameLength |-> 0, list |-> <<>>]

\* InputBuffer::prepareInputBufferList
prepareInputBufferList(b, frameCount) ==
    [b EXCEPT !.list = [c \in DOMAIN b.list |->
                          [mData |-> Ptr("in", c),
                           mDataByteSize |-> frameCount * SizeofFloat]]]

\* InputBuffer::pullInput: the status it returns
pullInput_status(block) ==
    IF block = "null" THEN "kAudioUnitErr_NoConnection" ELSE BlockStatus(block)

\* InputBuffer::pullInput: the InputBuffer it leaves
pullInput(b, block, frameCount) ==
    IF block = "null" THEN b
    ELSE [prepareInputBufferList(b, frameCount)
            EXCEPT !.frameLength = IF BlockStatus(block) = "noErr" THEN frameCount ELSE 0]

\* a processAndRender that goes on to render whatever the pull reported
aborts_never(status) == FALSE

\* if (status != noErr) { ...; return status; }
aborts(status) == status # "noErr"

\* FilterDSPKernel::setParameterValue
setParameterValue(k, address, value) ==
    CASE address = FilterParameterAddressCutoff -> [k EXCEPT !.cutoff_ = value]
      [] address = FilterParameterAddressResonance -> [k EXCEPT !.resonance_ = value]
      [] OTHER -> k

\* the bytes memcpy is asked to copy for frameCount frames
copyLength(frameCount) == frameCount

NoStep == [n |-> 0, off |-> 0, bypassed |-> FALSE]
StInit == [status |-> "none", pulled |-> "none", step |-> NoStep]

ProcInit ==
    /\ proc = [inputs_ |-> FALSE, outputs_ |-> FALSE, ins_ |-> <<>>, outs_ |-> <<>>,
               bypassed_ |-> FALSE]
    /\ kern = [cutoff_ |-> InitialCutoff, resonance_ |-> InitialResonance]
    /\ ib = [allocated |-> FALSE, maxFramesToRender_ |-> 0, frameLength |-> 0,
             list |-> <<>>]
    /\ mem = [in |-> <<>>, out |-> <<>>]
    /\ outList = <<>>
    /\ st = StInit

\* the channel's input and output buffers are one buffer
Aliased(c) == ib.list[c].mData = outList[c].mData

\* KernelEventProcessor::renderFrames(frameCount, processedFrameCount)
renderFrames(frameCount, processedFrameCount) ==
    LET chans == DOMAIN ib.list
        size == SizeofFloat * (processedFrameCount + frameCount)
        first == SizeofFloat * processedFrameCount
        \* the storage (blk, c) after the step
        after(blk, c) ==
            IF c \in chans /\ outList[c].mData = Ptr(blk, c)
            THEN LET src == mem[ib.list[c].mData.blk][c]
                 IN  IF proc.bypassed_
                     THEN IF Aliased(c) THEN mem[blk][c]
                          ELSE memcpy(mem[blk][c], first, src, first, copyLength(frameCount))
                     ELSE ApplyFilter(mem[blk][c], src, processedFrameCount, frameCount)
            ELSE mem[blk][c]
    IN  /\ mem' = [blk \in DOMAIN mem |-> [c \in DOMAIN mem[blk] |-> after(blk, c)]]
        /\ outList' = [c \in DOMAIN outList |->
                         IF c \in chans /\ ~(proc.bypassed_ /\ Aliased(c))
                         THEN [outList[c] EXCEPT !.mDataByteSize = size]
                         ELSE outList[c]]
        /\ proc' = IF proc.bypassed_ THEN proc
                   ELSE [proc EXCEPT
                           !.ins_ = [c \in chans |-> [ptr |-> ib.list[c].mData,
                                                      off |-> processedFrameCount]],
                           !.outs_ = [c \in chans |-> [ptr |-> outList[c].mData,
                                                       off |-> processedFrameCount]]]
        /\ st' = [st EXCEPT
                    !.step = [n |-> frameCount, off |-> processedFrameCount,
                              bypassed |-> proc.bypassed_]]
        /\ UNCHANGED <<kern, ib>>

\* startProcessing(format, channelCount, maxFramesToRender), rendering stopped
P_StartProcessing(channelCount) ==
    /\ pc = "idle"
    /\ ib' = setFormat(channelCount, MaxFramesToRender)
    /\ mem' = [mem EXCEPT !.in = Storage(channelCount)]
    /\ UNCHANGED <<proc, kern, outList, st, loopVars, notProc>>

\* stopProcessing(), rendering stopped
P_StopProcessing ==
    /\ pc = "idle"
    /\ ib.allocated
    /\ ib' = InputBuffer_reset(ib)
    /\ mem' = [mem EXCEPT !.in = <<>>]
    /\ UNCHANGED <<proc, kern, outList, st, loopVars, notProc>>

\* setBypass(bypass), between two render calls
P_SetBypass(bypass) ==
    /\ pc = "idle"
    /\ proc.bypassed_ # bypass
    /\ proc' = [proc EXCEPT !.bypassed_ = bypass]
    /\ UNCHANGED <<kern, ib, mem, outList, st, loopVars, notProc>>

\* setParameterValue(address, value), from the control thread
P_SetParameterValue(address, value) ==
    /\ pc = "idle"
    /\ kern' = setParameterValue(kern, address, value)
    /\ UNCHANGED <<proc, ib, mem, outList, st, loopVars, notProc>>

\* the host sets up the output buffer list of its next call: channel
\* pointers into its own storage, or null pointers to ask for in-place work
P_HostPrepare(channelCount, inPlace) ==
    /\ pc = "idle"
    /\ ib.allocated => channelCount = Len(ib.list)
    /\ outList' = [c \in 1..channelCount |->
                     [mData |-> IF inPlace THEN NullPtr ELSE Ptr("out", c),
                      mDataByteSize |-> 0]]
    /\ mem' = [mem EXCEPT !.out = IF inPlace THEN <<>> ELSE Storage(channelCount)]
    /\ pc' = "ready"
    /\ UNCHANGED <<proc, kern, ib, st, lp, calls, notProc>>

\* processAndRender, up to the call of render
P_ProcessAndRender(t0, frameCount, list, block) ==
    /\ pc = "ready"
    /\ block # "null" => ib.allocated
    /\ LET status == pullInput_status(block)
           inPlace == outList[1].mData = NullPtr
       IN  /\ ib' = pullInput(ib, block, frameCount)
           /\ IF aborts(status)
              THEN /\ mem' = [mem EXCEPT !.in = BlockWrites(block, @, frameCount)]
                   /\ st' = [st EXCEPT !.status = status, !.pulled = status]
                   /\ pc' = "returned"
                   /\ UNCHANGED <<proc, kern, outList, lp, calls>>
              ELSE /\ mem' = [mem EXCEPT !.in = BlockWrites(block, @, frameCount)]
                   /\ outList' = IF inPlace
                                 THEN [c \in DOMAIN outList |->
                                         [outList[c] EXCEPT !.mData = ib'.list[c].mData]]
                                 ELSE outList
                   \* setBuffers(inputBuffer_.audioBufferList(), output)
                   /\ proc' = [proc EXCEPT
                                 !.inputs_ = TRUE, !.outputs_ = TRUE,
                                 !.ins_ = [c \in DOMAIN ib'.list |->
                                             [ptr |-> ib'.list[c].mData, off |-> 0]],
                                 !.outs_ = [c \in DOMAIN ib'.list |->
                                              [ptr |-> outList'[c].mData, off |-> 0]]]
                   /\ st' = [st EXCEPT !.pulled = status]
                   /\ RenderEnter(t0, frameCount, list)
                   /\ UNCHANGED kern
    /\ UNCHANGED notProc

\* processAndRender on an InputBuffer without a buffer: prepareInputBufferList
\* writes through the null mutableAudioBufferList_
P_NullBufferList(block) ==
    /\ pc = "ready"
    /\ block # "null"
    /\ ~ib.allocated
    /\ pc' = "crashed"
    /\ UNCHANGED <<lp, calls, procVars, notProc>>

P_LoopExit == LoopExit /\ UNCHANGED <<procVars, notProc>>

P_RenderRest ==
    /\ RenderRest
    /\ renderFrames(lp.framesRemaining, lp.frameCount - lp.framesRemaining)
    /\ UNCHANGED notProc

P_RenderSegment ==
    /\ RenderSegment
    /\ LET n == framesThisSegment(lp.list, lp.events, lp.now, lp.t0, lp.epoch)
       IN  IF n # 0
           THEN renderFrames(n, lp.frameCount - lp.framesRemaining)
           ELSE UNCHANGED procVars
    /\ UNCHANGED notProc

\* doParameterEvent(event->parameter) / doMIDIEvent(event->MIDI) / nothing
P_DispatchEvent ==
    /\ DispatchEvent
    /\ kern' = IF handlerFor(lp.list[lp.events].eventType) = "doParameterEvent"
               THEN setParameterValue(kern, lp.list[lp.events].address,
                                      lp.list[lp.events].value)
               ELSE kern
    /\ UNCHANGED <<proc, ib, mem, outList, st, notProc>>

P_EventsReturn == EventsReturn /\ UNCHANGED <<procVars, notProc>>

\* a processAndRender that returns with its buffer views left in place
clearBuffers_kept(p) == p

\* KernelEventProcessor::clearBuffers
clearBuffers(p) ==
    [p EXCEPT !.inputs_ = FALSE, !.outputs_ = FALSE, !.ins_ = <<>>, !.outs_ = <<>>]

\* render returned: clearBuffers(); return noErr;
P_RenderDone ==
    /\ pc = "done"
    /\ proc' = clearBuffers(proc)
    /\ st' = [st EXCEPT !.status = "noErr"]
    /\ pc' = "returned"
    /\ UNCHANGED <<kern, ib, mem, outList, lp, calls, notProc>>

\* the host takes the status and its output buffers
P_Return ==
    /\ pc = "returned"
    /\ pc' = "idle"
    /\ lp' = LpInit
    /\ calls' = <<>>
    /\ st' = StInit
    /\ outList' = <<>>
    /\ mem' = [mem EXCEPT !.out = <<>>]
    /\ UNCHANGED <<proc, kern, ib, notProc>>

EventValues == {12}
Addresses == {FilterParameterAddressCutoff, FilterParameterAddressResonance, 3}

\* the events of a processAndRender call: a parameter event one frame into
\* the buffer, or a MIDI event at its first frame
ProcEvents(t0) ==
    [eventSampleTime : {t0 + 1}, eventType : {"Parameter"},
     address : Addresses, value : EventValues]
    \cup [eventSampleTime : {t0}, eventType : {"MIDI"}, address : {0}, value : {0}]

MaxProcEvents == 1

P_ProcessAndRenderAny ==
    /\ pc = "ready"
    /\ \E t0 \in T0Values, n \in 0..MaxFramesToRender, block \in PullBlocks :
         \E list \in SeqsUpTo(ProcEvents(t0), MaxProcEvents) :
            P_ProcessAndRender(t0, n, list, block)

ProcNext ==
    \/ \E ch \in 1..MaxChannels : P_StartProcessing(ch)
    \/ P_StopProcessing
    \/ \E b \in BOOLEAN : P_SetBypass(b)
    \/ \E a \in Addresses, v \in EventValues : P_SetParameterValue(a, v)
    \/ \E ch \in 1..MaxChannels, inPlace \in BOOLEAN : P_HostPrepare(ch, inPlace)
    \/ P_ProcessAndRenderAny
    \/ \E block \in PullBlocks : P_NullBufferList(block)
    \/ P_LoopExit
    \/ P_RenderRest
    \/ P_RenderSegment
    \/ P_DispatchEvent
    \/ P_EventsReturn
    \/ P_RenderDone
    \/ P_Return

MaxScheduled == 2

\* the events of a call with several events: of every type, at the first
\* frame of the buffer or one frame into it; the bytes of an event that is
\* not a parameter event, read as a parameter event, are a cutoff change
ScheduledEvents(t0) ==
    [eventSampleTime : {t0, t0 + 1}, eventType : EventTypes,
     address : {FilterParameterAddressCutoff}, value : EventValues]

\* processAndRender with any list of scheduled events
E_ProcessAndRenderAny ==
    /\ pc = "ready"
    /\ \E t0 \in T0Values, n \in 0..MaxFramesToRender, block \in {"ok", "fail"} :
         \E list \in SeqsUpTo(ScheduledEvents(t0), MaxScheduled) :
            P_ProcessAndRender(t0, n, list, block)

\* a host of one channel with its own output buffers that schedules events
EventsNext ==
    \/ P_StartProcessing(1)
    \/ P_HostPrepare(1, FALSE)
    \/ E_ProcessAndRenderAny
    \/ P_NullBufferList("ok")
    \/ P_LoopExit
    \/ P_RenderRest
    \/ P_RenderSegment
    \/ P_DispatchEvent
    \/ P_EventsReturn
    \/ P_RenderDone
    \/ P_Return

----------------------------------------------------------------------------
(***************************************************************************)
(* FilterDSPKernel of Shared/AudioUnit/Support: two ParameterRamper, the   *)
(* per-channel FilterState and the biquad recursion of renderFrames.       *)
(*                                                                         *)
(* A cutoff ramper holds a fraction of the Nyquist frequency; the model     *)
(* holds it in units of 1 / CutoffScale, so that the default cutoff         *)
(* 400.0 / 44100.0 and every product with nyquist are whole numbers.        *)
(* calculateLopassParams is given whole frequencies only, for which         *)
(* sin(M_PI * frequency) is 0 and cos(M_PI * frequency) is 1 or -1.         *)
(***************************************************************************)

FilterParamCutoff == 0
FilterParamResonance == 1

DefaultSampleRate == 44100
SampleRates == {DefaultSampleRate}
CutoffScale == DefaultSampleRate \div 2

\* v * m / d, computed without leaving 32 bits
MulDiv(v, m, d) == (v \div d) * m + ((v % d) * m) \div d

\* struct FilterState
FilterState == [x1 |-> 0, x2 |-> 0, y1 |-> 0, y2 |-> 0]

\* constexpr float maxValue = 1.0E15: a sample is held in units of 1.0E12
maxValue == 1000

\* FilterState::convertBadValuesToZero: a magnitude below minValue (1.0E-15)
\* is 0 among whole numbers
convertBadValuesToZero(x) == IF Abs(x) >= 1 /\ Abs(x) <= maxValue THEN x ELSE 0

convertBadStateValuesToZero(s) ==
    [x1 |-> convertBadValuesToZero(s.x1), x2 |-> convertBadValuesToZero(s.x2),
     y1 |-> convertBadValuesToZero(s.y1), y2 |-> convertBadValuesToZero(s.y2)]

\* struct BiquadCoefficients
BiquadCoefficients == [a1 |-> 0, a2 |-> 0, b0 |-> 0, b1 |-> 0, b2 |-> 0]

\* BiquadCoefficients::calculateLopassParams for a whole frequency
calculateLopassParams(frequency, resonance) ==
    LET cosine == IF frequency % 2 = 0 THEN 1 ELSE -1    \* cos(M_PI * frequency)
        k == 0                      \* 0.5 * r * sin(M_PI * frequency)
        c1 == (1 - k) \div (1 + k)
        c2 == (1 + c1) * cosine
        c3 == (1 + c1 - c2) \div 4
    IN  [a1 |-> -c2, a2 |-> c1, b0 |-> c3, b1 |-> 2 * c3, b2 |-> c3]

\* channelStates_.resize(n): the states kept, new ones value-initialised
resize(states, n) ==
    [c \in 1..n |-> IF c <= Len(states) THEN states[c] ELSE FilterState]

\* FilterDSPKernel(): rampDuration_ has no initialiser; its value is
\* indeterminate until setFormat assigns it, and nothing reads it before
FilterDSPKernel ==
    [cutoffRamper |-> ParameterRamper((InitialCutoff * CutoffScale) \div DefaultSampleRate),
     resonanceRamper |-> ParameterRamper(InitialResonance),
     channelStates_ |-> <<>>,
     coeffs_ |-> BiquadCoefficients,
     sampleRate |-> DefaultSampleRate,
     nyquist |-> DefaultSampleRate \div 2,
     rampDuration_ |-> "indeterminate",
     bypassed |-> FALSE]

\* FilterDSPKernel::setFormat
B_setFormat(k, channelCount, rate) ==
    [k EXCEPT !.channelStates_ = resize(@, channelCount),
              !.sampleRate = rate,
              !.nyquist = rate \div 2,
              !.rampDuration_ = (2 * rate) \div 100,
              !.cutoffRamper = ParameterRamper_reset(@),
              !.resonanceRamper = ParameterRamper_reset(@)]

\* setParameterValue with a default label that falls into the resonance case
B_setParameterValue_default(k, address, value) ==
    CASE address = FilterParamCutoff ->
            [k EXCEPT !.cutoffRamper = setValue(@, MulDiv(value, CutoffScale, k.nyquist))]
      [] OTHER -> [k EXCEPT !.resonanceRamper = setValue(@, value)]

\* FilterDSPKernel::setParameterValue: value * inverseNyquist for the cutoff
B_setParameterValue(k, address, value) ==
    CASE address = FilterParamCutoff ->
            [k EXCEPT !.cutoffRamper = setValue(@, MulDiv(value, CutoffScale, k.nyquist))]
      [] address = FilterParamResonance ->
            [k EXCEPT !.resonanceRamper = setValue(@, value)]
      [] OTHER -> k

\* FilterDSPKernel::getParameterValue: getValue() * nyquist for the cutoff
B_getParameterValue(k, address) ==
    CASE address = FilterParamCutoff -> MulDiv(getValue(k.cutoffRamper), k.nyquist, CutoffScale)
      [] address = FilterParamResonance -> getValue(k.resonanceRamper)
      [] OTHER -> 0

\* FilterDSPKernel::handleParameterEvent: event.value as it is
handleParameterEvent(k, event) ==
    CASE event.address = FilterParamCutoff ->
            [k EXCEPT !.cutoffRamper =
                setValueRamped(@, event.value * CutoffScale, event.rampDurationSampleFrames)]
      [] event.address = FilterParamResonance ->
            [k EXCEPT !.resonanceRamper =
                setValueRamped(@, event.value, event.rampDurationSampleFrames)]
      [] OTHER -> k

\* renderFrames with bypassed set: the copy loops; io.inPlace says that the
\* mData of the input and of the output buffers are the same pointers
passThrough(k, io, frameCount, bufferOffset) ==
    IF io.inPlace THEN io
    ELSE [io EXCEPT !.out =
            [c \in DOMAIN io.out |->
                IF c <= Len(k.channelStates_)
                THEN [f \in DOMAIN io.out[c] |->
                        IF f > bufferOffset /\ f <= bufferOffset + frameCount
                        THEN io.in[c][f] ELSE io.out[c][f]]
                ELSE io.out[c]]]

\* renderFrames: the loop over frameIndex, from frameIndex on
RECURSIVE frameLoop(_, _, _, _, _)
frameLoop(k, io, frameIndex, frameCount, bufferOffset) ==
    IF frameIndex >= frameCount THEN [k |-> k, io |-> io]
    ELSE LET cutoff == MulDiv(getAndStepValue(k.cutoffRamper), k.nyquist, CutoffScale)
             resonance == getAndStepValue(k.resonanceRamper)
             co == calculateLopassParams(cutoff, resonance)
             frameOffset == frameIndex + bufferOffset + 1
             x0(c) == io.in[c][frameOffset]
             y0(c) == LET state == k.channelStates_[c]
                      IN  (co.b0 * x0(c)) + (co.b1 * state.x1) + (co.b2 * state.x2)
                          - (co.a1 * state.y1) - (co.a2 * state.y2)
             states == [c \in DOMAIN k.channelStates_ |->
                          [x2 |-> k.channelStates_[c].x1, x1 |-> x0(c),
                           y2 |-> k.channelStates_[c].y1, y1 |-> y0(c)]]
             written(buf) == [c \in DOMAIN buf |->
                                IF c <= Len(states)
                                THEN [buf[c] EXCEPT ![frameOffset] = y0(c)]
                                ELSE buf[c]]
         IN  frameLoop([k EXCEPT !.cutoffRamper = getAndStep(@),
                                 !.resonanceRamper = getAndStep(@),
                                 !.coeffs_ = co,
                                 !.channelStates_ = states],
                       IF io.inPlace THEN [io EXCEPT !.in = written(@)]
                                     ELSE [io EXCEPT !.out = written(@)],
                       frameIndex + 1, frameCount, bufferOffset)

\* if (bypassed) { ...; return; }
bypassReturn(k, io, frameCount, bufferOffset) ==
    [k |-> k, io |-> passThrough(k, io, frameCount, bufferOffset)]

\* renderFrames that zeroes the output samples of the segment before the loop
B_renderFrames_clearFirst(k, io, frameCount, bufferOffset) ==
    LET started == [k EXCEPT !.cutoffRamper = startRamping(@, k.rampDuration_),
                             !.resonanceRamper = startRamping(@, k.rampDuration_)]
        cleared(buf) == [c \in DOMAIN buf |-> [f \in DOMAIN buf[c] |-> 0]]
        r == frameLoop(started,
                       IF io.inPlace THEN [io EXCEPT !.in = cleared(@)]
                                     ELSE [io EXCEPT !.out = cleared(@)],
                       0, frameCount, bufferOffset)
    IN  [k |-> [r.k EXCEPT !.channelStates_ =
                    [c \in DOMAIN @ |-> convertBadStateValuesToZero(@[c])]],
         io |-> r.io]

\* FilterDSPKernel::renderFrames
B_renderFrames(k, io, frameCount, bufferOffset) ==
    IF k.bypassed
    THEN bypassReturn(k, io, frameCount, bufferOffset)
    ELSE LET started == [k EXCEPT !.cutoffRamper = startRamping(@, k.rampDuration_),
                                  !.resonanceRamper = startRamping(@, k.rampDuration_)]
             r == frameLoop(started, io, 0, frameCount, bufferOffset)
         IN  [k |-> [r.k EXCEPT !.channelStates_ =
                        [c \in DOMAIN @ |-> convertBadStateValuesToZero(@[c])]],
              io |-> r.io]

(***************************************************************************)
(* SpecBypass: two kernels, "byp" and "ref", are constructed alike and     *)
(* given the same formats, parameter values, render calls, events and      *)
(* input samples; only the bypass of "byp" is ever switched.  render is    *)
(* the loop of KernelEventProcessor, which does not look at the kernel, so *)
(* one pc, lp and calls serve both.                                        *)
(***************************************************************************)

Runs == {"byp", "ref"}

ChannelCounts == {1, MaxChannels}
CutoffValues == {1083}
ResonanceValues == {12}
EventCutoffValues == {1}
EventRampDurations == {2}

\* the sample the upstream gives for a channel at a frame (from 1) of a call
InputSample(c, f) == c + f

NoBuffers == [inPlace |-> FALSE, in |-> <<>>, out |-> <<>>]

\* setBuffers(inBufferList, outBufferList) with the samples of the call
Buffers(channelCount, frameCount, inPlace) ==
    [inPlace |-> inPlace,
     in |-> [c \in 1..channelCount |-> [f \in 1..frameCount |-> InputSample(c, f)]],
     out |-> IF inPlace THEN <<>>
             ELSE [c \in 1..channelCount |-> [f \in 1..frameCount |-> 0]]]

\* the state of a parameter: pending value, ramp samples remaining and the
\* change counter last observed
RamperState(r) ==
    [pendingValue_ |-> r.pendingValue_, samplesRemaining_ |-> r.samplesRemaining_,
     lastUpdateCounter_ |-> r.lastUpdateCounter_]

ParameterState(k) ==
    [cutoff |-> RamperState(k.cutoffRamper), resonance |-> RamperState(k.resonanceRamper)]

BypInit ==
    /\ bk = [r \in Runs |-> FilterDSPKernel]
    /\ bio = [r \in Runs |-> NoBuffers]
    /\ bst = [formatted |-> FALSE, frames |-> 0, sets |-> 0, agreed |-> TRUE,
              everBypassed |-> FALSE]

\* setFormat(format) on both kernels: allocateRenderResources
B_SetFormat(channelCount, rate) ==
    /\ pc = "idle"
    /\ ~bst.formatted
    /\ bk' = [r \in Runs |-> B_setFormat(bk[r], channelCount, rate)]
    /\ bst' = [bst EXCEPT !.formatted = TRUE]
    /\ UNCHANGED <<bio, loopVars, notByp>>

\* setBypass(shouldBypass) on "byp", between calls or between segments
B_SetBypass(shouldBypass) ==
    /\ pc \in {"idle", "loop"}
    /\ bst.formatted
    /\ bk["byp"].bypassed # shouldBypass
    /\ bk' = [bk EXCEPT !["byp"].bypassed = shouldBypass]
    /\ UNCHANGED <<bio, bst, loopVars, notByp>>

\* setParameterValue(address, value) on both kernels, between calls
B_SetParameterValue(address, value) ==
    /\ pc = "idle"
    /\ bst.formatted
    /\ bst.sets < MaxSets
    /\ bk' = [r \in Runs |-> B_setParameterValue(bk[r], address, value)]
    /\ bst' = [bst EXCEPT !.sets = @ + 1]
    /\ UNCHANGED <<bio, loopVars, notByp>>

\* setBuffers and render(timestamp, frameCount, events) on both kernels
B_Render(t0, frameCount, list, inPlace) ==
    /\ pc = "idle"
    /\ bst.formatted
    /\ bst.frames + frameCount <= MaxStream
    /\ bio' = [r \in Runs |-> Buffers(Len(bk[r].channelStates_), frameCount, inPlace)]
    /\ bst' = [bst EXCEPT !.frames = @ + frameCount,
                          !.agreed = ParameterState(bk["byp"]) = ParameterState(bk["ref"]),
                          !.everBypassed = bk["byp"].bypassed]
    /\ RenderEnter(t0, frameCount, list)
    /\ UNCHANGED <<bk, notByp>>

\* both kernels render the frames of a segment
BothRenderFrames(frameCount, bufferOffset) ==
    LET r == [run \in Runs |-> B_renderFrames(bk[run], bio[run], frameCount, bufferOffset)]
    IN  /\ bk' = [run \in Runs |-> r[run].k]
        /\ bio' = [run \in Runs |-> r[run].io]
        /\ bst' = [bst EXCEPT !.everBypassed = @ \/ bk["byp"].bypassed]

B_LoopExit == LoopExit /\ UNCHANGED <<bypVars, notByp>>

B_RenderRest ==
    /\ RenderRest
    /\ BothRenderFrames(lp.framesRemaining, lp.frameCount - lp.framesRemaining)
    /\ UNCHANGED notByp

B_RenderSegment ==
    /\ RenderSegment
    /\ LET n == framesThisSegment(lp.list, lp.events, lp.now, lp.t0, lp.epoch)
       IN  IF n # 0
           THEN BothRenderFrames(n, lp.frameCount - lp.framesRemaining)
           ELSE UNCHANGED bypVars
    /\ UNCHANGED notByp

\* handleParameterEvent(event.parameter) on both kernels
B_DispatchEvent ==
    /\ DispatchEvent
    /\ bk' = IF handlerFor(lp.list[lp.events].eventType) = "doParameterEvent"
             THEN [r \in Runs |-> handleParameterEvent(bk[r], lp.list[lp.events])]
             ELSE bk
    /\ UNCHANGED <<bio, bst, notByp>>

B_EventsReturn == EventsReturn /\ UNCHANGED <<bypVars, notByp>>

\* render returned; the hosts take their output buffers
B_RenderReturn ==
    /\ RenderReturn
    /\ bio' = [r \in Runs |-> NoBuffers]
    /\ UNCHANGED <<bk, bst, notByp>>

\* the events of a call: a parameter event one frame into the buffer, an
\* immediate one for the resonance or a ramped one for the cutoff
BypEvents(t0) ==
    [eventSampleTime : {t0 + 1}, eventType : {"Parameter"},
     address : {FilterParamCutoff}, value : EventCutoffValues,
     rampDurationSampleFrames : EventRampDurations]
    \cup [eventSampleTime : {t0 + 1}, eventType : {"Parameter"},
          address : {FilterParamResonance}, value : ResonanceValues,
          rampDurationSampleFrames : {0}]

B_RenderAny ==
    /\ pc = "idle"
    /\ \E t0 \in T0Values, n \in 0..MaxFramesToRender, inPlace \in BOOLEAN :
         \E list \in {<<>>} \cup {<<e>> : e \in BypEvents(t0)} :
            B_Render(t0, n, list, inPlace)

BypNext ==
    \/ \E ch \in ChannelCounts, rate \in SampleRates : B_SetFormat(ch, rate)
    \/ \E b \in BOOLEAN : B_SetBypass(b)
    \/ \E v \in CutoffValues : B_SetParameterValue(FilterParamCutoff, v)
    \/ \E v \in ResonanceValues : B_SetParameterValue(FilterParamResonance, v)
    \/ B_RenderAny
    \/ B_LoopExit
    \/ B_RenderRest
    \/ B_RenderSegment
    \/ B_DispatchEvent
    \/ B_EventsReturn
    \/ B_RenderReturn

----------------------------------------------------------------------------
(***************************************************************************)
(* SpecState: one FilterDSPKernel of AudioUnit/Support given formats,      *)
(* parameter values, resets and the renderFrames of segments whose input   *)
(* samples are ordinary or beyond maxValue.  The samples written to the    *)
(* output buffers belong to the host and are not kept.  sh records the     *)
(* last operation, the frames rendered and parameter values set so far,    *)
(* whether a frame of the last segment began with a state value that       *)
(* convertBadValuesToZero would have replaced, the address of the last     *)
(* parameter operation and which ramper it left as it was, the value last  *)
(* given to each known address (by a set or by an event), what the last    *)
(* getParameterValue returned, whether the last segment was rendered in    *)
(* place, whether rendering it the other way (apart instead of in place)   *)
(* gives the same output samples and kernel, and whether the output        *)
(* samples are the input samples.                                          *)
(***************************************************************************)

Samples == {1, 2 * maxValue}

\* FilterDSPKernel::reset
B_reset(k) ==
    [k EXCEPT !.cutoffRamper = ParameterRamper_reset(@),
              !.resonanceRamper = ParameterRamper_reset(@),
              !.channelStates_ = [c \in DOMAIN @ |-> FilterState]]

\* channelStates_ when frame frameIndex of a segment begins
statesAtFrame(k, io, frameIndex, bufferOffset) ==
    LET started == [k EXCEPT !.cutoffRamper = startRamping(@, k.rampDuration_),
                             !.resonanceRamper = startRamping(@, k.rampDuration_)]
    IN  frameLoop(started, io, 0, frameIndex, bufferOffset).k.channelStates_

IsBad(x) == x # 0 /\ ~(Abs(x) >= 1 /\ Abs(x) <= maxValue)

HasBadValue(states) ==
    \E c \in DOMAIN states :
        IsBad(states[c].x1) \/ IsBad(states[c].x2) \/ IsBad(states[c].y1) \/ IsBad(states[c].y2)

KnownAddresses == {FilterParamCutoff, FilterParamResonance}
StateAddresses == KnownAddresses \cup {2}

\* the scheduled parameter events given to the kernel
StateEvents ==
    [address : StateAddresses, value : EventCutoffValues,
     rampDurationSampleFrames : {0} \cup EventRampDurations]

\* the record of a new operation: what is recorded of one operation only is
\* as in the beginning
After(hh, op) ==
    [hh EXCEPT !.op = op, !.frameCount = 0, !.badAtFrame = FALSE, !.address = -1,
               !.keptCutoff = TRUE, !.keptResonance = TRUE, !.got = -1,
               !.inPlace = FALSE, !.sameApart = TRUE, !.passed = FALSE]

\* what a parameter operation for an address with a value did to the rampers
Parameterised(hh, op, address, value) ==
    [After(hh, op) EXCEPT !.sets = @ + 1, !.address = address,
               !.keptCutoff = sk'.cutoffRamper = sk.cutoffRamper,
               !.keptResonance = sk'.resonanceRamper = sk.resonanceRamper,
               !.last = IF address \in KnownAddresses
                        THEN [@ EXCEPT ![address] = value] ELSE @]

StateInit ==
    /\ sk = FilterDSPKernel
    /\ sh = [op |-> "construct", formatted |-> FALSE, frames |-> 0, sets |-> 0,
             frameCount |-> 0, badAtFrame |-> FALSE,
             address |-> -1, keptCutoff |-> TRUE, keptResonance |-> TRUE,
             last |-> [a \in KnownAddresses |-> -1], got |-> -1,
             inPlace |-> FALSE, sameApart |-> TRUE, passed |-> FALSE]

S_SetFormat(channelCount, rate) ==
    /\ sk' = B_setFormat(sk, channelCount, rate)
    /\ sh' = [After(sh, "setFormat") EXCEPT !.formatted = TRUE]
    /\ UNCHANGED notState

S_Reset ==
    /\ sh.formatted
    /\ sk' = B_reset(sk)
    /\ sh' = After(sh, "reset")
    /\ UNCHANGED notState

S_SetParameterValue(address, value) ==
    /\ sh.formatted
    /\ sh.sets < MaxSets
    /\ sk' = B_setParameterValue(sk, address, value)
    /\ sh' = Parameterised(sh, "setParameterValue", address, value)
    /\ UNCHANGED notState

\* handleParameterEvent(event) of a scheduled event, between two segments
S_HandleParameterEvent(event) ==
    /\ sh.formatted
    /\ sh.sets < MaxSets
    /\ sk' = handleParameterEvent(sk, event)
    /\ sh' = Parameterised(sh, "handleParameterEvent", event.address, event.value)
    /\ UNCHANGED notState

S_GetParameterValue(address) ==
    /\ sh.formatted
    /\ sh' = [After(sh, "getParameterValue") EXCEPT !.address = address,
                        !.got = B_getParameterValue(sk, address)]
    /\ UNCHANGED <<sk, notState>>

\* setBuffers with input buffers holding the samples in, and output buffers
\* that are the input buffers (inPlace) or apart from them
SegmentBuffers(in, frameCount, inPlace) ==
    [inPlace |-> inPlace, in |-> in,
     out |-> IF inPlace THEN <<>>
             ELSE [c \in DOMAIN in |-> [f \in 1..frameCount |-> 0]]]

\* the samples a renderFrames call left in the output buffers
Rendered(io) == IF io.inPlace THEN io.in ELSE io.out

\* renderFrames(frameCount, 0) for a segment with the input samples in
S_RenderFrames(frameCount, in, inPlace) ==
    /\ sh.formatted
    /\ sh.frames + frameCount <= MaxStream
    /\ LET io == SegmentBuffers(in, frameCount, inPlace)
           r == B_renderFrames(sk, io, frameCount, 0)
           other == B_renderFrames(sk, SegmentBuffers(in, frameCount, ~inPlace),
                                   frameCount, 0)
       IN  /\ sk' = r.k
           /\ sh' = [After(sh, "renderFrames") EXCEPT !.frames = @ + frameCount,
                        !.frameCount = frameCount,
                        !.badAtFrame = \E i \in 0..(frameCount - 1) :
                                          HasBadValue(statesAtFrame(sk, io, i, 0)),
                        !.inPlace = inPlace,
                        !.sameApart = /\ Rendered(r.io) = Rendered(other.io)
                                      /\ r.k = other.k,
                        !.passed = Rendered(r.io) = in]
    /\ UNCHANGED notState

\* the input samples of a segment: channel c holds the samples of the
\* pattern, each raised by c - 1
SegmentInput(pattern, channelCount) ==
    [c \in 1..channelCount |-> [f \in DOMAIN pattern |-> pattern[f] + (c - 1)]]

\* a segment of any length with input samples of any pattern
S_RenderAny ==
    \E n \in 1..MaxStream :
        \E pattern \in [1..n -> Samples], inPlace \in BOOLEAN :
            S_RenderFrames(n, SegmentInput(pattern, Len(sk.channelStates_)), inPlace)

StateNext ==
    \/ \E ch \in ChannelCounts, rate \in SampleRates : S_SetFormat(ch, rate)
    \/ S_Reset
    \/ \E v \in CutoffValues : S_SetParameterValue(FilterParamCutoff, v)
    \/ \E v \in ResonanceValues : S_SetParameterValue(FilterParamResonance, v)
    \/ \E v \in ResonanceValues : S_SetParameterValue(2, v)
    \/ \E event \in StateEvents : S_HandleParameterEvent(event)
    \/ \E address \in StateAddresses : S_GetParameterValue(address)
    \/ S_RenderAny

----------------------------------------------------------------------------
(***************************************************************************)
(* BiquadFilter of Shared/Kernel: the coefficient array F_, the            *)
(* vDSP_biquadm setup and the memoized arguments of calculateParams.       *)
(*                                                                         *)
(* A coefficient, an angle, a sine are held in units of 1 / Unit.  The     *)
(* float nyquistPeriod (1.0 / nyquistFrequency) is held as the frequency   *)
(* it is the reciprocal of, in Hz, so that a product with nyquistPeriod is *)
(* a division by that frequency.  A setup is a record of the channel count *)
(* it was created for, the coefficients it was created with and the        *)
(* targets it was last given; NoSetup is the null setup.                   *)
(***************************************************************************)

Unit == 100 * 100

\* M_PI
Pi == 31416

\* 10 ^ -0.05
TenToMinus20th == 8913

\* a * b for two values in units of 1 / Unit
Times(a, b) == Quotient(a * b, Unit)

\* ::sinf(x) for -M_PI <= x <= M_PI
sinf(x) ==
    LET a == Abs(x)
        y == IF 2 * a > Pi THEN Pi - a ELSE a
        y2 == Times(y, y)
        \* y - y^3/3! + y^5/5! - y^7/7!, from the innermost factor outwards
        t7 == Unit - Quotient(y2, 42)
        t5 == Unit - Times(Quotient(y2, 20), t7)
        t3 == Unit - Times(Quotient(y2, 6), t5)
        s == Times(y, t3)
    IN  IF x < 0 THEN -s ELSE s

\* ::cosf(x) for 0 <= x <= M_PI
cosf(x) == sinf(Quotient(Pi, 2) - x)

\* ::powf(10.0, 0.05 * -resonance) for a whole resonance >= 0
RECURSIVE powf10(_)
powf10(resonance) ==
    IF resonance <= 0 THEN Unit ELSE Times(powf10(resonance - 1), TenToMinus20th)

\* the five coefficients of a channel: c3, c3 + c3, c3, -c2, c1
Coefficients(frequency, resonance, nyquistPeriod) ==
    LET frequencyRads == MulDiv(Pi, frequency, nyquistPeriod)
        r == powf10(resonance)
        k == Quotient(Times(r, sinf(frequencyRads)), 2)
        c1 == Quotient((Unit - k) * Unit, Unit + k)
        c2 == Times(Unit + c1, cosf(frequencyRads))
        c3 == Quotient(Unit + c1 - c2, 4)
    IN  <<c3, c3 + c3, c3, -c2, c1>>

\* F_.clear(); ...; the push_back loop over the channels
RECURSIVE fill(_, _)
fill(co, numChannels) ==
    IF numChannels <= 0 THEN <<>> ELSE fill(co, numChannels - 1) \o co

NoSetup == [channels |-> -1, coefficients |-> <<>>, targets |-> <<>>]

\* what vDSP_biquadm_CreateSetup(F, 1, N) may return: a setup, or for no
\* channel at all a null setup as well
vDSP_biquadm_CreateSetup(F, N) ==
    {[channels |-> N, coefficients |-> F, targets |-> <<>>]}
        \cup (IF N = 0 THEN {NoSetup} ELSE {})

vDSP_biquadm_SetTargetsDouble(setup, F) == [setup EXCEPT !.targets = F]

\* the member initialisers of BiquadFilter; lastResonance_ is 1E10, a value
\* no resonance takes
BiquadFilter ==
    [F_ |-> <<>>, setup_ |-> NoSetup,
     lastFrequency_ |-> -1, lastResonance_ |-> Int32Max, lastNumChannels_ |-> 0]

memoized_never(b, frequency, resonance, numChannels) == FALSE

\* the arguments are those of the last call that was not skipped
memoized(b, frequency, resonance, numChannels) ==
    /\ b.lastFrequency_ = frequency
    /\ b.lastResonance_ = resonance
    /\ numChannels = b.lastNumChannels_

interpolates_anySetup(b, numChannels) == b.setup_ # NoSetup

\* setup_ != nullptr && numChannels == lastNumChannels_
interpolates(b, numChannels) ==
    b.setup_ # NoSetup /\ numChannels = b.lastNumChannels_

\* which path calculateParams takes
pathOf(b, frequency, resonance, numChannels) ==
    IF memoized(b, frequency, resonance, numChannels) THEN "skip"
    ELSE IF interpolates(b, numChannels) THEN "interpolate"
    ELSE "rebuild"

\* BiquadFilter::calculateParams; made is what vDSP_biquadm_CreateSetup
\* returns if it is called
calculateParams(b, frequency, resonance, nyquistPeriod, numChannels, made) ==
    LET path == pathOf(b, frequency, resonance, numChannels)
        F == fill(Coefficients(frequency, resonance, nyquistPeriod), numChannels)
    IN  IF path = "skip" THEN b
        ELSE [F_ |-> F,
              setup_ |-> IF path = "interpolate"
                         THEN vDSP_biquadm_SetTargetsDouble(b.setup_, F)
                         ELSE made,
              lastFrequency_ |-> frequency,
              lastResonance_ |-> resonance,
              lastNumChannels_ |-> numChannels]

\* the setups vDSP_biquadm_CreateSetup may return to a call of calculateParams
Made(frequency, resonance, nyquistPeriod, numChannels) ==
    vDSP_biquadm_CreateSetup(
        fill(Coefficients(frequency, resonance, nyquistPeriod), numChannels), numChannels)

\* enum Index { B0 = 0, B1, B2, A1, A2 }
B0 == 0
B1 == 1
B2 == 2
A1 == 3
A2 == 4

\* F_[index]
Coefficient(b, index) == b.F_[index + 1]

\* a value no float below 1e15 takes: a quotient with denominator zero
Infinite == Int32Max

\* fabs(x) > 1e-15 && fabs(x) < 1e15 && x != 0.0 ? x : 1.0
filterBadValues(x) == IF Abs(x) > 0 /\ Abs(x) < Infinite /\ x # 0 THEN x ELSE Unit

squared(x) == MulDiv(Abs(x), Abs(x), Unit)

\* the whole number whose square is nearest below n, between lo and hi
RECURSIVE root(_, _, _)
root(n, lo, hi) ==
    IF lo >= hi THEN lo
    ELSE LET mid == (lo + hi + 1) \div 2
         IN  IF mid * mid <= n THEN root(n, mid, hi) ELSE root(n, lo, mid - 1)

\* ::sqrt(x) for 0 <= x, in units of 1 / Unit
sqrt(x) == root(x * Unit, 0, 4 * Unit)

\* the decibels, counted from k, that bring x >= 1.0 down to 1.0
RECURSIVE decibelsAbove(_, _)
decibelsAbove(x, k) ==
    IF k < 8 * 10 /\ MulDiv(x, powf10(k + 1), Unit) >= Unit
    THEN decibelsAbove(x, k + 1) ELSE k

\* the decibels, counted from k, that bring 1.0 down to x <= 1.0
RECURSIVE decibelsBelow(_, _)
decibelsBelow(x, k) ==
    IF k < 8 * 10 /\ powf10(k + 1) >= x THEN decibelsBelow(x, k + 1) ELSE k

\* 20.0 * ::log10(x) for x > 0, in whole decibels towards zero; what is
\* below 1 / Unit is -80 dB
log10x20(x) == IF x >= Unit THEN decibelsAbove(x, 0) ELSE -decibelsBelow(x, 0)

\* the magnitude BiquadFilter::magnitudes stores for one frequency
magnitude(b, frequency, inverseNyquist) ==
    LET theta == MulDiv(Pi, frequency, inverseNyquist)
        zReal == cosf(theta)
        zImag == sinf(theta)
        zReal2 == squared(zReal)
        zImag2 == squared(zImag)
        numerReal == Times(Coefficient(b, B0), zReal2 - zImag2)
                         + Times(Coefficient(b, B1), zReal) + Coefficient(b, B2)
        numerImag == Times(Times(2 * Coefficient(b, B0), zReal), zImag)
                         + Times(Coefficient(b, B1), zImag)
        numerMag == sqrt(squared(numerReal) + squared(numerImag))
        denomReal == zReal2 - zImag2 + Times(Coefficient(b, A1), zReal)
                         + Coefficient(b, A2)
        denomImag == Times(2 * zReal, zImag) + Times(Coefficient(b, A1), zImag)
        denomMag == sqrt(squared(denomReal) + squared(denomImag))
        value == IF denomMag = 0 THEN Infinite
                 ELSE Quotient(numerMag * Unit, denomMag)
    IN  log10x20(filterBadValues(value))

\* BiquadFilter::magnitudes: the magnitudes array for the frequencies array
magnitudes(b, frequencies, inverseNyquist) ==
    [i \in DOMAIN frequencies |-> magnitude(b, frequencies[i], inverseNyquist)]

(***************************************************************************)
(* SpecBiquad: one BiquadFilter given every sequence of calculateParams,   *)
(* and asked after any of them for the magnitudes at frequency 0 and at    *)
(* the Nyquist frequency (bh.magnitudes, for bh.inverseNyquist).           *)
(* bh records the last call: its arguments, whether frequency, resonance   *)
(* and channel count were those of the call before it, the path taken, the *)
(* calls of vDSP_biquadm_DestroySetup, _CreateSetup and _SetTargetsDouble  *)
(* it made, which members it left as they were, and whether the filter had *)
(* a setup and the channel count of the last call when the call began.     *)
(***************************************************************************)

Frequencies == {InitialCutoff, 11025}
Resonances == {InitialResonance, 0}
NyquistFrequencies == {DefaultSampleRate \div 2, 24000}

Arguments == [frequency : Frequencies, resonance : Resonances,
              nyquistPeriod : NyquistFrequencies, numChannels : 0..MaxChannels]

NoArguments == [frequency |-> -1, resonance |-> -1, nyquistPeriod |-> -1, numChannels |-> -1]

BiquadInit ==
    /\ bq = BiquadFilter
    /\ bh = [op |-> "construct", args |-> NoArguments, repeated |-> FALSE,
             path |-> "none", destroyed |-> 0, created |-> 0, targeted |-> 0,
             keptF |-> TRUE, keptSetup |-> TRUE, keptLast |-> TRUE,
             hadSetup |-> FALSE, sameChannels |-> FALSE,
             magnitudes |-> <<>>, inverseNyquist |-> -1]

CalculateParams(a) ==
    /\ \E made \in Made(a.frequency, a.resonance, a.nyquistPeriod, a.numChannels) :
        bq' = calculateParams(bq, a.frequency, a.resonance, a.nyquistPeriod,
                              a.numChannels, made)
    /\ LET path == pathOf(bq, a.frequency, a.resonance, a.numChannels)
       IN  bh' = [op |-> "calculateParams", args |-> a,
                  repeated |-> /\ a.frequency = bh.args.frequency
                               /\ a.resonance = bh.args.resonance
                               /\ a.numChannels = bh.args.numChannels,
                  path |-> path,
                  destroyed |-> IF path = "rebuild" /\ bq.setup_ # NoSetup THEN 1 ELSE 0,
                  created |-> IF path = "rebuild" THEN 1 ELSE 0,
                  targeted |-> IF path = "interpolate" THEN 1 ELSE 0,
                  keptF |-> bq'.F_ = bq.F_,
                  keptSetup |-> bq'.setup_ = bq.setup_,
                  keptLast |-> /\ bq'.lastFrequency_ = bq.lastFrequency_
                               /\ bq'.lastResonance_ = bq.lastResonance_
                               /\ bq'.lastNumChannels_ = bq.lastNumChannels_,
                  hadSetup |-> bq.setup_ # NoSetup,
                  sameChannels |-> a.numChannels = bq.lastNumChannels_,
                  magnitudes |-> <<>>, inverseNyquist |-> -1]
    /\ UNCHANGED <<fk, fh, notFilt>>

\* magnitudes(frequencies, 2, inverseNyquist, magnitudes) with frequency 0
\* and the Nyquist frequency, on a filter that has coefficients
Magnitudes(inverseNyquist) ==
    /\ bq.F_ # <<>>
    /\ bh' = [bh EXCEPT !.op = "magnitudes",
                        !.magnitudes = magnitudes(bq, <<0, inverseNyquist>>, inverseNyquist),
                        !.inverseNyquist = inverseNyquist]
    /\ UNCHANGED <<bq, fk, fh, notFilt>>

BiquadNext ==
    \/ \E a \in Arguments : CalculateParams(a)
    \/ \E inverseNyquist \in NyquistFrequencies : Magnitudes(inverseNyquist)

(***************************************************************************)
(* SpecKernel: the FilterDSPKernel of Shared/Kernel with its BiquadFilter, *)
(* from construction through startProcessing, parameter changes, the       *)
(* handleRendering of each render segment that is not bypassed, and        *)
(* stopProcessing.  ins.size() is the number of buffers of the host's      *)
(* buffer lists (setBuffers), the channel count of the format.  fh holds   *)
(* whether processing was started, that channel count, for the last        *)
(* operation the path its calculateParams took, whether the cutoff was     *)
(* given a new value since the last segment (cutoffSet), and whether the   *)
(* last segment was the first one after such a change (afterCutoff).       *)
(***************************************************************************)

FormatSampleRates == {DefaultSampleRate, 48000}

\* FilterDSPKernel(): the member initialisers, then calculateParams for 2
\* channels at the default sample rate
Kernel_FilterDSPKernel ==
    LET nyquistFrequency == DefaultSampleRate \div 2
    IN  [filter_ |-> calculateParams(BiquadFilter, InitialCutoff, InitialResonance,
                        nyquistFrequency, 2,
                        CHOOSE made \in Made(InitialCutoff, InitialResonance,
                                             nyquistFrequency, 2) : TRUE),
         sampleRate_ |-> DefaultSampleRate,
         channelCount_ |-> 1,
         nyquistFrequency_ |-> nyquistFrequency,
         nyquistPeriod_ |-> nyquistFrequency,
         cutoff_ |-> InitialCutoff,
         resonance_ |-> InitialResonance]

\* FilterDSPKernel::startProcessing
Kernel_startProcessing(k, channelCount, sampleRate) ==
    [k EXCEPT !.sampleRate_ = sampleRate,
              !.nyquistFrequency_ = sampleRate \div 2,
              !.nyquistPeriod_ = sampleRate \div 2,
              !.channelCount_ = channelCount]

\* FilterDSPKernel::handleRendering: calculateParams, then apply, which leaves
\* the filter's members alone
handleRendering(k, numChannels, made) ==
    [k EXCEPT !.filter_ = calculateParams(@, k.cutoff_, k.resonance_, k.nyquistPeriod_,
                                          numChannels, made)]

KernelInit ==
    /\ fk = Kernel_FilterDSPKernel
    /\ fh = [op |-> "construct", processing |-> FALSE, channels |-> 0,
             path |-> "rebuild", cutoffSet |-> FALSE, afterCutoff |-> FALSE]

K_StartProcessing(channelCount, sampleRate) ==
    /\ ~fh.processing
    /\ fk' = Kernel_startProcessing(fk, channelCount, sampleRate)
    /\ fh' = [fh EXCEPT !.op = "startProcessing", !.processing = TRUE,
                        !.channels = channelCount, !.path = "none"]
    /\ UNCHANGED <<bq, bh, notFilt>>

K_StopProcessing ==
    /\ fh.processing
    /\ fh' = [fh EXCEPT !.op = "stopProcessing", !.processing = FALSE, !.path = "none"]
    /\ UNCHANGED <<fk, bq, bh, notFilt>>

\* setParameterValue of the control thread, or of a parameter event
K_SetParameterValue(address, value) ==
    /\ fk' = setParameterValue(fk, address, value)
    /\ fh' = [fh EXCEPT !.op = "setParameterValue", !.path = "none",
                        !.cutoffSet = @ \/ (address = FilterParameterAddressCutoff
                                             /\ value # fk.cutoff_)]
    /\ UNCHANGED <<bq, bh, notFilt>>

\* the handleRendering of a render segment
K_HandleRendering ==
    /\ fh.processing
    /\ \E made \in Made(fk.cutoff_, fk.resonance_, fk.nyquistPeriod_, fh.channels) :
        fk' = handleRendering(fk, fh.channels, made)
    /\ fh' = [fh EXCEPT !.op = "handleRendering",
                        !.path = pathOf(fk.filter_, fk.cutoff_, fk.resonance_, fh.channels),
                        !.cutoffSet = FALSE,
                        !.afterCutoff = fh.cutoffSet]
    /\ UNCHANGED <<bq, bh, notFilt>>

\* the values a parameter address is given
ParameterSettings ==
    ({FilterParameterAddressCutoff} \X Frequencies)
        \cup ({FilterParameterAddressResonance} \X Resonances)
        \cup {<<3, 0>>}

KernelNext ==
    \/ \E channelCount \in 1..MaxChannels, sampleRate \in FormatSampleRates :
            K_StartProcessing(channelCount, sampleRate)
    \/ K_StopProcessing
    \/ \E p \in ParameterSettings : K_SetParameterValue(p[1], p[2])
    \/ K_HandleRendering

----------------------------------------------------------------------------
(***************************************************************************)
(* The three input buffer classes: InputBuffer (Shared/Kernel),            *)
(* BufferedInputBus and AUAudioUnitBusInputBufferManager (both of          *)
(* Shared/AudioUnit/Support), given the same calls.  Each holds an         *)
(* AVAudioPCMBuffer with room for maxFrames frames in every channel; its   *)
(* audioBufferList is the original list, whose entry c points at the       *)
(* storage of channel c (Ptr("in", c)), and its mutableAudioBufferList is  *)
(* the list handed to the pull block, which the block may write to.        *)
(***************************************************************************)

InputClasses == {"InputBuffer", "BufferedInputBus", "AUAudioUnitBusInputBufferManager"}

\* the byte size prepareInputBufferList declares for every buffer
byteSize(class, frameCount, maxFrames) ==
    CASE class = "InputBuffer" -> frameCount * SizeofFloat
      [] class = "BufferedInputBus" -> maxFrames * SizeofFloat
      [] OTHER -> Min(frameCount, maxFrames) * SizeofFloat

\* a prepareInputBufferList that sets the sizes and leaves the pointers
prepare_sizesOnly(class, b, frameCount) ==
    [b EXCEPT !.list = [c \in DOMAIN b.list |->
                          [b.list[c] EXCEPT !.mDataByteSize =
                                byteSize(class, frameCount, b.maxFrames)]]]

\* prepareInputBufferList of the class: the buffer count and every entry of
\* the mutable list are written from the original list
prepare(class, b, frameCount) ==
    [b EXCEPT !.mNumberBuffers = Len(b.list),
              !.list = [c \in DOMAIN b.list |->
                          [mData |-> Ptr("in", c),
                           mDataByteSize |-> byteSize(class, frameCount, b.maxFrames)]]]

\* what a pull block does to the list it is given
PullBlockKinds == {"fills", "ownPointers", "fewerBuffers"}

\* the list after the pull block ran: a block fills the buffers it is given,
\* or stores pointers to its own buffers ("up") and their sizes, for all
\* buffers or for the first one only with the count set to 1
pulled(b, block, frameCount) ==
    CASE block = "fills" -> b
      [] block = "ownPointers" ->
            [b EXCEPT !.list = [c \in DOMAIN b.list |->
                                  [mData |-> Ptr("up", c),
                                   mDataByteSize |-> frameCount * SizeofFloat]]]
      [] OTHER ->
            [b EXCEPT !.mNumberBuffers = 1,
                      !.list = [c \in DOMAIN b.list |->
                                  IF c = 1
                                  THEN [mData |-> Ptr("up", c),
                                        mDataByteSize |-> frameCount * SizeofFloat]
                                  ELSE b.list[c]]]

\* an input buffer that has no AVAudioPCMBuffer
NoBuffer == [allocated |-> FALSE, maxFrames |-> 0, mNumberBuffers |-> 0, list |-> <<>>]

\* setFormat / allocateRenderResources: a new AVAudioPCMBuffer
allocate(channelCount, maxFrames) ==
    [allocated |-> TRUE, maxFrames |-> maxFrames, mNumberBuffers |-> channelCount,
     list |-> [c \in 1..channelCount |->
                 [mData |-> Ptr("in", c), mDataByteSize |-> 0]]]

\* the list has an entry that does not point at the buffer's own storage
Foreign(b) ==
    \/ b.mNumberBuffers # Len(b.list)
    \/ \E c \in DOMAIN b.list : b.list[c].mData # Ptr("in", c)

InputInit ==
    /\ inb = [class \in InputClasses |-> NoBuffer]
    /\ ih = [op |-> "construct", frameCount |-> 0, wasForeign |-> FALSE,
             handed |-> [class \in InputClasses |-> NoBuffer]]

\* setFormat(format, channelCount, maxFrames) / allocateRenderResources(maxFrames)
I_SetFormat(channelCount, maxFrames) ==
    /\ inb' = [class \in InputClasses |-> allocate(channelCount, maxFrames)]
    /\ ih' = [op |-> "setFormat", frameCount |-> 0, wasForeign |-> FALSE,
              handed |-> [class \in InputClasses |-> NoBuffer]]
    /\ UNCHANGED notInput

\* reset() / deallocateRenderResources()
I_Reset ==
    /\ inb[CHOOSE class \in InputClasses : TRUE].allocated
    /\ inb' = [class \in InputClasses |-> NoBuffer]
    /\ ih' = [op |-> "reset", frameCount |-> 0, wasForeign |-> FALSE,
              handed |-> [class \in InputClasses |-> NoBuffer]]
    /\ UNCHANGED notInput

\* pullInput(actionFlags, timestamp, frameCount, inputBusNumber, pullInputBlock)
\* with a pull block, on buffers that are allocated; handed is the list as
\* the block is invoked
I_PullInput(frameCount, block) ==
    /\ \A class \in InputClasses : inb[class].allocated
    /\ LET handed == [class \in InputClasses |-> prepare(class, inb[class], frameCount)]
       IN  /\ inb' = [class \in InputClasses |-> pulled(handed[class], block, frameCount)]
           /\ ih' = [op |-> "pullInput", frameCount |-> frameCount,
                     wasForeign |-> \A class \in InputClasses : Foreign(inb[class]),
                     handed |-> handed]
    /\ UNCHANGED notInput

\* pullInput with pullInputBlock == nullptr: kAudioUnitErr_NoConnection
I_PullNoConnection ==
    /\ ih.op # "noConnection"
    /\ ih' = [op |-> "noConnection", frameCount |-> 0, wasForeign |-> FALSE,
              handed |-> [class \in InputClasses |-> NoBuffer]]
    /\ UNCHANGED <<inb, notInput>>

\* frame counts of a pull: up to one frame more than the buffer holds
PullFrameCounts == 0..(MaxFramesToRender + 1)

InputNext ==
    \/ \E channelCount \in 1..MaxChannels, maxFrames \in 1..MaxFramesToRender :
            I_SetFormat(channelCount, maxFrames)
    \/ I_Reset
    \/ \E frameCount \in PullFrameCounts, block \in PullBlockKinds :
            I_PullInput(frameCount, block)
    \/ I_PullNoConnection

----------------------------------------------------------------------------
(***************************************************************************)
(* BiquadFilter::calculateParams on the render thread, statement by        *)
(* statement, with BiquadFilter::magnitudes on the UI thread.  Nothing in  *)
(* the two functions orders the accesses to F_.  The std::vector F_ is its *)
(* storage (as many elements as its capacity) and its size: clear() sets   *)
(* the size to 0 and leaves the storage, reserve() gets new storage of     *)
(* indeterminate content when the capacity is too small, push_back stores  *)
(* one element and adds 1 to the size.  F_[i] reads the storage, whatever  *)
(* the size; beyond the storage, and in storage that push_back has not     *)
(* written yet, it reads an indeterminate value.                           *)
(***************************************************************************)

TornArguments ==
    [frequency : Frequencies, resonance : {InitialResonance},
     nyquistPeriod : {DefaultSampleRate \div 2}, numChannels : 1..MaxChannels]

\* the coefficient sets calculateParams computes for one channel
CompleteSets ==
    {Coefficients(a.frequency, a.resonance, a.nyquistPeriod) : a \in TornArguments}

\* an element of storage: a coefficient that was stored, or what memory
\* nothing was stored in holds
Stored(value) == [written |-> TRUE, value |-> value]
Indeterminate == [written |-> FALSE, value |-> 0]

\* F_.clear(); F_.reserve(n);
clearAndReserve(storage, n) ==
    IF Len(storage) >= n THEN storage ELSE [i \in 1..n |-> Indeterminate]

\* F_.push_back(value) on a vector of this storage and size
push_back(storage, size, value) == [storage EXCEPT ![size + 1] = Stored(value)]

\* F_[index] as the reader finds it
readCoefficient(storage, index) ==
    IF index + 1 <= Len(storage) THEN storage[index + 1] ELSE Indeterminate

TornInit ==
    /\ tq = [storage |-> <<>>, size |-> 0, todo |-> <<>>, pc |-> "idle",
             lastFrequency_ |-> 0 - 1, lastResonance_ |-> Int32Max, lastNumChannels_ |-> 0]
    /\ tr = [pc |-> "idle", seen |-> <<>>, rebuilt |-> FALSE]

\* calculateParams up to the loop: the early return, the coefficients, clear and reserve
T_Begin(a) ==
    /\ tq.pc = "idle"
    /\ ~(tq.lastFrequency_ = a.frequency /\ tq.lastResonance_ = a.resonance
           /\ a.numChannels = tq.lastNumChannels_)
    /\ tq' = [tq EXCEPT
                !.storage = clearAndReserve(@, 5 * a.numChannels),
                !.size = 0,
                !.todo = fill(Coefficients(a.frequency, a.resonance, a.nyquistPeriod),
                              a.numChannels),
                !.pc = "loop",
                !.lastFrequency_ = a.frequency,
                !.lastResonance_ = a.resonance,
                !.lastNumChannels_ = a.numChannels]
    /\ tr' = [tr EXCEPT !.rebuilt = @ \/ tr.pc = "reading"]
    /\ UNCHANGED notTorn

\* one push_back of the loop
T_PushBack ==
    /\ tq.pc = "loop"
    /\ tq.todo # <<>>
    /\ tq' = [tq EXCEPT !.storage = push_back(@, tq.size, Head(tq.todo)),
                        !.size = @ + 1,
                        !.todo = Tail(@)]
    /\ UNCHANGED <<tr, notTorn>>

\* the loop is done: the setup is updated and calculateParams returns
T_Return ==
    /\ tq.pc = "loop"
    /\ tq.todo = <<>>
    /\ tq' = [tq EXCEPT !.pc = "idle"]
    /\ UNCHANGED <<tr, notTorn>>

\* magnitudes is called for a filter that has had its coefficients computed
U_Magnitudes ==
    /\ tr.pc = "idle"
    /\ tq.lastNumChannels_ > 0
    /\ tr' = [pc |-> "reading", seen |-> <<>>, rebuilt |-> tq.pc # "idle"]
    /\ UNCHANGED <<tq, notTorn>>

\* magnitudes reads the next of F_[B0], F_[B1], F_[B2], F_[A1], F_[A2]
U_Read ==
    /\ tr.pc = "reading"
    /\ Len(tr.seen) <= A2
    /\ tr' = [tr EXCEPT !.seen = Append(@, readCoefficient(tq.storage, Len(@)))]
    /\ UNCHANGED <<tq, notTorn>>

\* magnitudes has read the five coefficients and returns
U_Return ==
    /\ tr.pc = "reading"
    /\ Len(tr.seen) > A2
    /\ tr' = [pc |-> "idle", seen |-> <<>>, rebuilt |-> FALSE]
    /\ UNCHANGED <<tq, notTorn>>

TornNext ==
    \/ \E a \in TornArguments : T_Begin(a)
    \/ T_PushBack
    \/ T_Return
    \/ U_Magnitudes
    \/ U_Read
    \/ U_Return

----------------------------------------------------------------------------
(***************************************************************************)
(* LFO: a table of size_ samples read at phase_, which every tick()        *)
(* advances by increment_.  phase_ and increment_ are floats; here they    *)
(* are whole numbers of 1/PhaseUnit of a table position.                   *)
(***************************************************************************)

MaxTable == 4
MaxOscillator == 10
PhaseUnit == 2 * 2 * 2

TableSizes == 1..MaxTable
SampleFrequencies == {4, 8}
OscillatorFrequencies == 1..MaxOscillator

\* LFO::LFO(generator) with generator.sampleCount() = size
LFO(size) == [size_ |-> size, phase_ |-> 0, increment_ |-> 0]

\* increment_ = size_ * oscillatorFrequency / sampleFrequency
start(l, sampleFrequency, oscillatorFrequency) ==
    [l EXCEPT !.increment_ = (l.size_ * oscillatorFrequency * PhaseUnit) \div sampleFrequency]

\* int(::floor(phase_))
index1(l) == l.phase_ \div PhaseUnit

index2(l) == IF index1(l) + 1 = l.size_ THEN 0 ELSE index1(l) + 1

\* phase_ += increment_; if (phase_ >= size_) phase_ -= size_;
tick(l) ==
    LET phase == l.phase_ + l.increment_
    IN  [l EXCEPT !.phase_ = IF phase >= l.size_ * PhaseUnit
                             THEN phase - l.size_ * PhaseUnit
                             ELSE phase]

LFO_reset(l) == [l EXCEPT !.phase_ = 0]

\* no LFO yet
LFOInit ==
    /\ lfo = [size_ |-> 0, phase_ |-> 0, increment_ |-> 0]
    /\ lt = [pc |-> "none", op |-> "none", index1 |-> 0, index2 |-> 0, fast |-> FALSE]

\* the LFO is made from a generator of size samples
L_Construct(size) ==
    /\ lt.pc = "none"
    /\ lfo' = LFO(size)
    /\ lt' = [lt EXCEPT !.pc = "ready", !.op = "construct"]
    /\ UNCHANGED notLfo

L_ConstructAny == \E size \in TableSizes : L_Construct(size)

L_Start(sampleFrequency, oscillatorFrequency) ==
    /\ lt.pc = "ready"
    /\ lfo' = start(lfo, sampleFrequency, oscillatorFrequency)
    /\ lt' = [lt EXCEPT !.op = "start",
                        !.fast = @ \/ oscillatorFrequency > sampleFrequency]
    /\ UNCHANGED notLfo

\* tick() with both indices inside the table
L_Tick ==
    /\ lt.pc = "ready"
    /\ index1(lfo) < lfo.size_
    /\ lfo' = tick(lfo)
    /\ lt' = [lt EXCEPT !.op = "tick", !.index1 = index1(lfo), !.index2 = index2(lfo)]
    /\ UNCHANGED notLfo

\* tick() with phase_ at or beyond size_: samples_[index1] is read outside
\* the table, and nothing is known of the call from there on
L_TickOutside ==
    /\ lt.pc = "ready"
    /\ index1(lfo) >= lfo.size_
    /\ lt' = [lt EXCEPT !.pc = "outside", !.op = "tick",
                        !.index1 = index1(lfo), !.index2 = index2(lfo)]
    /\ UNCHANGED <<lfo, notLfo>>

L_Reset ==
    /\ lt.pc = "ready"
    /\ lfo' = LFO_reset(lfo)
    /\ lt' = [lt EXCEPT !.op = "reset"]
    /\ UNCHANGED notLfo

L_StartAny ==
    \E sampleFrequency \in SampleFrequencies, oscillatorFrequency \in OscillatorFrequencies :
        L_Start(sampleFrequency, oscillatorFrequency)

LFONext ==
    \/ L_ConstructAny
    \/ L_StartAny
    \/ L_Tick
    \/ L_TickOutside
    \/ L_Reset

----------------------------------------------------------------------------
(***************************************************************************)
(* Specifications                                                          *)
(***************************************************************************)

\* the state after construction
Init ==
    /\ RamperInit
    /\ LoopInit
    /\ ProcInit
    /\ BypInit
    /\ BiquadInit
    /\ KernelInit
    /\ StateInit
    /\ InputInit
        /\ TornInit
        /\ LFOInit

\* one ParameterRamper under every sequence of calls
SpecRamper == Init /\ [][RamperNext]_vars

\* the same, with a control thread that finishes the setValue it began and a
\* render thread that keeps calling startRamping and getAndStep
SpecRamperLive ==
    /\ Init
    /\ [][RamperNext]_vars
    /\ WF_vars(SetValueBump)
    /\ WF_vars(\E d \in 0..MaxRamp : StartRamping(d))
    /\ WF_vars(GetAndStep)

\* KernelEventProcessor<T>::render with a kernel T that records its calls
SpecLoop == Init /\ [][LoopNext]_vars

\* render given events of any epoch, by a thread that runs on while the
\* call has a step to take
SpecLoopFar == Init /\ [][FarNext]_vars /\ WF_vars(LoopStep)

\* processAndRender of the Shared/Kernel processor with its FilterDSPKernel
SpecProcess == Init /\ [][ProcNext]_vars

\* the same processor under a host that schedules lists of events
SpecEvents == Init /\ [][EventsNext]_vars

\* two FilterDSPKernel of AudioUnit/Support given the same calls
SpecBypass == Init /\ [][BypNext]_vars

\* one BiquadFilter under every sequence of calculateParams calls
SpecBiquad == Init /\ [][BiquadNext]_vars

\* the FilterDSPKernel of Shared/Kernel with its BiquadFilter
SpecKernel == Init /\ [][KernelNext]_vars

\* one FilterDSPKernel of AudioUnit/Support and its filter state
SpecState == Init /\ [][StateNext]_vars

\* the three input buffer classes given the same calls
SpecInput == Init /\ [][InputNext]_vars

\* calculateParams on the render thread and magnitudes on the UI thread
SpecTorn == Init /\ [][TornNext]_vars

\* one LFO given every sequence of start, tick and reset
SpecLFO == Init /\ [][LFONext]_vars

----------------------------------------------------------------------------
(***************************************************************************)
(* Properties of the render loop, read off the calls it made               *)
(***************************************************************************)

IsRender(c) == c.k = "renderFrames"
IsHandler(c) == c.k \in {"doParameterEvent", "doMIDIEvent"}

RenderIdx == {j \in 1..Len(calls) : IsRender(calls[j])}
EventIdx == {j \in 1..Len(calls) : ~IsRender(calls[j])}
HandlerIdx == {j \in 1..Len(calls) : IsHandler(calls[j])}

\* frames handed to doRenderFrames before the j-th call
RECURSIVE FramesBefore(_)
FramesBefore(j) ==
    IF j <= 1 THEN 0
    ELSE FramesBefore(j - 1) + (IF IsRender(calls[j - 1]) THEN calls[j - 1].n ELSE 0)

TimeOf(i) == lp.list[i].eventSampleTime

Ascending(list) ==
    \A i \in 1..(Len(list) - 1) : list[i].eventSampleTime <= list[i + 1].eventSampleTime

\* every event lies in [T0, T0 + frameCount)
AllInside ==
    \A i \in DOMAIN lp.list : lp.t0 <= TimeOf(i) /\ TimeOf(i) < lp.t0 + lp.frameCount

\* C1  Segment alignment.  For a call with frameCount > 0 and an ascending
\* list whose timestamps all lie in [T0, T0 + frameCount), the offsets where
\* one render step ends and the next begins are exactly the t - T0 of the
\* distinct timestamps t > T0, and no rendered segment has an event
\* timestamp strictly inside it.
C1_SegmentAlignment ==
    (pc = "done" /\ lp.frameCount > 0 /\ Ascending(lp.list) /\ AllInside) =>
        LET first == CHOOSE j \in RenderIdx : \A m \in RenderIdx : j <= m
            last == CHOOSE j \in RenderIdx : \A m \in RenderIdx : m <= j
            cuts == {TimeOf(i) - lp.t0 : i \in {x \in DOMAIN lp.list : TimeOf(x) > lp.t0}}
        IN  /\ RenderIdx # {}
            /\ {calls[j].off : j \in RenderIdx \ {first}} = cuts
            /\ {calls[j].off + calls[j].n : j \in RenderIdx \ {last}} = cuts
            /\ \A j \in RenderIdx : \A i \in DOMAIN lp.list :
                 ~(calls[j].off < TimeOf(i) - lp.t0
                     /\ TimeOf(i) - lp.t0 < calls[j].off + calls[j].n)

\* a finished call that was cut at two distinct event timestamps
C1_Witness ==
    /\ pc = "done"
    /\ lp.frameCount > 0 /\ Ascending(lp.list) /\ AllInside
    /\ Cardinality(RenderIdx) = 3

\* C2  Every event is applied at its scheduled sample offset.  With an
\* ascending list, when the handler of an event with T0 <= t <= T0 +
\* frameCount is invoked, exactly t - T0 frames have been handed to the
\* render step; an event with t < T0 is applied before any frame.
C2_EventsAtScheduledOffset ==
    Ascending(lp.list) =>
        \A j \in HandlerIdx :
            LET t == TimeOf(calls[j].i)
            IN  /\ (lp.t0 <= t /\ t <= lp.t0 + lp.frameCount) => FramesBefore(j) = t - lp.t0
                /\ t < lp.t0 => FramesBefore(j) = 0

\* a late event and an event inside the buffer have both been applied
C2_Witness ==
    /\ pc = "done"
    /\ Ascending(lp.list)
    /\ \E j \in HandlerIdx : TimeOf(calls[j].i) < lp.t0
    /\ \E j \in HandlerIdx : /\ TimeOf(calls[j].i) > lp.t0
                             /\ TimeOf(calls[j].i) <= lp.t0 + lp.frameCount
                             /\ FramesBefore(j) > 0

\* C3  Coincident events.  With an ascending list, events that carry the
\* same timestamp are handled in list order with no render step between
\* them, and once renderEventsUntil has returned, either all of them were
\* handled or none.
C3_CoincidentEvents ==
    Ascending(lp.list) =>
        /\ \A p, q \in EventIdx :
             (p < q /\ TimeOf(calls[p].i) = TimeOf(calls[q].i)) =>
                 /\ calls[p].i < calls[q].i
                 /\ \A m \in p..q : ~IsRender(calls[m])
        /\ pc \in {"loop", "done"} =>
             \A i, j \in DOMAIN lp.list :
                 (TimeOf(i) = TimeOf(j) /\ \E p \in EventIdx : calls[p].i = i)
                     => \E q \in EventIdx : calls[q].i = j

\* two events at one timestamp inside the buffer were both handled, after a
\* render step and before the next one
C3_Witness ==
    /\ pc = "done"
    /\ \E p, q \in HandlerIdx :
         /\ q = p + 1
         /\ TimeOf(calls[p].i) = TimeOf(calls[q].i)
         /\ TimeOf(calls[p].i) > lp.t0
         /\ p > 1 /\ IsRender(calls[p - 1])
         /\ q < Len(calls) /\ IsRender(calls[q + 1])

\* C4  The processor never reorders events.  Whatever the order of the
\* timestamps, the events consumed by a render call are the first k events
\* of the list, in list order, each once; each makes the call its type
\* selects, and the cursor stands after the k-th.
C4_NeverReorders ==
    LET ev == SelectSeq(calls, LAMBDA c : ~IsRender(c))
    IN  /\ \A p \in 1..Len(ev) : ev[p].i = p
        /\ \A p \in 1..Len(ev) : ev[p].k = handlerFor(lp.list[p].eventType)
        /\ pc # "idle" => lp.events = Len(ev) + 1

\* a finished call on a list that is not sorted, both events handled
C4_Witness ==
    /\ pc = "done"
    /\ ~Ascending(lp.list)
    /\ Cardinality(HandlerIdx) >= 2

----------------------------------------------------------------------------
(***************************************************************************)
(* Properties of the ramper                                                *)
(***************************************************************************)

\* C9  Ramp convergence.  After a ramp of duration D to the pending target
\* v1 was started, the remaining-sample count is D minus the steps taken
\* (never below 0), so exactly D steps end the ramp; isRamping() is false
\* from then on, getCurrent() is exactly v1, and a getAndStep() made after
\* the end returns v1 as long as no setValue wrote a new pending value.
C9_RampConvergence ==
    /\ ramper.samplesRemaining_ = Max(h.dur - h.steps, 0)
    /\ isRamping(ramper) <=> (h.steps < h.dur)
    /\ ~isRamping(ramper) => getCurrent(ramper) = h.target
    /\ (h.op = "getAndStep" /\ h.wasDone /\ ~h.stored) => h.ret = h.target

\* the D-th getAndStep of a ramp of D > 1 samples with a non-zero slope
C9_Witness ==
    /\ h.op = "getAndStep"
    /\ h.dur > 1
    /\ h.steps = h.dur
    /\ ~h.wasDone
    /\ ramper.slope_ # 0
    /\ ~isRamping(ramper)

\* C10  Ramp start is driven by the change counter.  A startRamping(D) call
\* starts a ramp exactly when a setValue completed since the previous
\* startRamping (or reset / construction); otherwise slope, offset and
\* remaining count stay as they were; a change seen with D = 0 snaps to the
\* pending value and no ramp is in progress.
C10_RampStartOnChange ==
    [][ h'.op = "startRamping" =>
          /\ h'.began <=> (h.sets > 0)
          /\ ~h'.began =>
                /\ ramper'.slope_ = ramper.slope_
                /\ ramper'.offset_ = ramper.offset_
                /\ ramper'.samplesRemaining_ = ramper.samplesRemaining_
          /\ h'.began =>
                /\ ramper'.samplesRemaining_ = h'.dur
                /\ ramper'.offset_ = ramper.pendingValue_
          /\ (h'.began /\ h'.dur = 0) =>
                /\ ~isRamping(ramper')
                /\ getCurrent(ramper') = ramper.pendingValue_
                /\ getAndStepValue(ramper') = ramper.pendingValue_
      ]_vars

\* a startRamping(0) that saw a change while an earlier ramp was running
C10_Witness ==
    /\ h.op = "startRamping"
    /\ h.began
    /\ h.dur = 0
    /\ ~h.wasDone

\* a startRamping that saw no change while a ramp was running
C10_WitnessNoChange ==
    /\ h.op = "startRamping"
    /\ ~h.began
    /\ isRamping(ramper)

\* C11 The render thread alone decides when the effective value changes:
\* a getAndStep that finds no ramp in progress returns the pending value the
\* render thread read at its most recent ramp start (or the constructor or
\* reset value), whatever the control thread stored since.
C11_RenderThreadDecides ==
    (h.op = "getAndStep" /\ h.wasDone) => h.ret = h.target

\* the calls that set a value
SetOps == {"store", "setValue", "setValueRamped"}

\* C12 Stale reads self-correct: unless values are set again and again for
\* ever, from some point on every getAndStep returns the last value set.
C12_StaleReadsSelfCorrect ==
    []<>(h.op \in SetOps) \/ <>[](h.op = "getAndStep" => h.ret = h.last)

\* a getAndStep returns a value set by a setValue that the render thread
\* observed and ramped to
C12_Witness ==
    /\ h.op = "getAndStep"
    /\ h.ret = h.last
    /\ h.last \notin InitialValues
    /\ ramper.lastUpdateCounter_ = ramper.changeCounter_
    /\ ramper.changeCounter_ > 0
    /\ h.dur > 0
    /\ h.steps > h.dur
    /\ ctlPc = "idle"

\* C13 getValue() returns the argument of the most recent setValue, or the
\* constructor value if there was none, after every call.
C13_PendingReadBack == getValue(ramper) = h.last

\* a reset, and a step along a ramp, with a value set and not yet ramped to
C13_Witness ==
    /\ h.op = "reset"
    /\ h.last \notin InitialValues
    /\ getValue(ramper) = h.last

C13_WitnessRamp ==
    /\ h.op \in {"step", "getAndStep", "stepBy"}
    /\ ~h.wasDone
    /\ h.last # h.target

----------------------------------------------------------------------------
(***************************************************************************)
(* Properties of processAndRender                                          *)
(***************************************************************************)

\* the pull of the call in progress reported a status other than noErr
PullFailed(s) == s.pulled \notin {"none", "noErr"}

\* C5 Upstream pull failure: a step of processAndRender in which the input
\* pull reports a status other than noErr (kAudioUnitErr_NoConnection for a
\* null pull block included) ends the call with exactly that status, with no
\* render step and no event handler invoked, with the output buffer list and
\* the output samples untouched, and with the processor's buffer views, bypass
\* flag and parameters, and the shape of its input buffer, as before the call.
C5_UpstreamPullFailure ==
    [][PullFailed(st') =>
          /\ pc' = "returned"
          /\ st'.status = st'.pulled
          /\ calls' = <<>>
          /\ st'.step = NoStep
          /\ pc = "ready" =>
                /\ UNCHANGED <<proc, kern, outList>>
                /\ mem'.out = mem.out
                /\ ib'.allocated = ib.allocated
                /\ DOMAIN ib'.list = DOMAIN ib.list]_vars

\* a call on two channels with host output buffers, bypass on and a changed
\* cutoff, whose pull block wrote samples and then reported an error
C5_Witness ==
    /\ pc = "returned"
    /\ st.status = "kAudioUnitErr_Upstream"
    /\ Len(outList) = MaxChannels
    /\ outList[1].mData # NullPtr
    /\ mem.in[1][1] = UpstreamByte(1, 1)
    /\ proc.bypassed_
    /\ kern.cutoff_ # InitialCutoff

\* a call with a null pull block
C5_WitnessNoConnection ==
    /\ pc = "returned"
    /\ st.status = "kAudioUnitErr_NoConnection"
    /\ kern.resonance_ # InitialResonance

\* the step appends a render step to the calls of the render in progress
RenderStep == Len(calls') = Len(calls) + 1 /\ IsRender(calls'[Len(calls')])

\* C6 Bypass pass-through: with bypass enabled, a render step of n frames at
\* buffer offset o leaves, for every channel whose output buffer is distinct
\* from its input buffer, out[o+i] = in[o+i] for all 0 <= i < n, and writes
\* nothing for a channel whose input and output buffers alias.
C6_BypassPassThrough ==
    [][(RenderStep /\ proc.bypassed_) =>
          LET n == calls'[Len(calls')].n
              o == calls'[Len(calls')].off
          IN  \A c \in DOMAIN outList :
                 IF Aliased(c)
                 THEN /\ mem'.in[c] = mem.in[c]
                      /\ outList'[c] = outList[c]
                 ELSE \A i \in 0..(n - 1) :
                         Float(mem'.out[c], o + i) = Float(mem'.in[c], o + i)]_vars

----------------------------------------------------------------------------
(***************************************************************************)
(* Properties of the two kernels of SpecBypass                             *)
(***************************************************************************)

\* the buffers a kernel leaves its output samples in
OutOf(io) == IF io.inPlace THEN io.in ELSE io.out

\* C7 Bypass keeps bookkeeping identical: the two kernels get the same T0,
\* frameCount, event list and parameter history, and the same handler calls
\* at the same offsets (calls); when their parameters were in the same state
\* as the call began and "byp" rendered with bypass enabled, the call leaves
\* every parameter of "byp" in the state it has in "ref": pending value, ramp
\* samples remaining and observed change counter.
C7_BypassKeepsBookkeeping ==
    (pc = "done" /\ bst.agreed /\ bst.everBypassed)
        => ParameterState(bk["byp"]) = ParameterState(bk["ref"])

\* C8 Bypass transparency: at every render step "byp" takes with bypass
\* disabled, whatever was bypassed before, the filter delay history of every
\* channel is that of "ref", which never bypassed, and the frames the step
\* produces are the frames "ref" produces.
C8_BypassTransparency ==
    [][(RenderStep /\ ~bk["byp"].bypassed) =>
          LET n == calls'[Len(calls')].n
              o == calls'[Len(calls')].off
          IN  /\ bk["byp"].channelStates_ = bk["ref"].channelStates_
              /\ \A c \in DOMAIN bk["byp"].channelStates_ :
                    \A f \in (o + 1)..(o + n) :
                        OutOf(bio'["byp"])[c][f] = OutOf(bio'["ref"])[c][f]]_vars

----------------------------------------------------------------------------
(***************************************************************************)
(* Properties of BiquadFilter::calculateParams                             *)
(***************************************************************************)

\* what a call of calculateParams left as it was, and the library calls it made
NothingDone ==
    /\ bh.keptF /\ bh.keptSetup /\ bh.keptLast
    /\ bh.targeted = 0 /\ bh.created = 0 /\ bh.destroyed = 0

\* C14: a calculateParams call whose frequency, resonance and channel count
\* are those of the call just before it changes nothing: the coefficient
\* array, the setup and the memoized values stay as they were, no
\* interpolation target is installed, no setup is created or destroyed.
C14_IdempotentRecompute ==
    (bh.op = "calculateParams" /\ bh.repeated) => NothingDone

\* a repeated call on a filter that has a setup for some channels
C14_Witness ==
    /\ bh.op = "calculateParams" /\ bh.repeated
    /\ bh.args.numChannels > 0
    /\ bq.setup_ # NoSetup
    /\ bq.F_ # <<>>

\* the coefficient array the arguments of the last call give
ArgumentCoefficients ==
    fill(Coefficients(bh.args.frequency, bh.args.resonance, bh.args.nyquistPeriod),
         bh.args.numChannels)

\* C18: a calculateParams call that is not skipped, on a filter that has a
\* setup and with the channel count of the last call, gives the new
\* coefficients to the setup as targets and neither destroys nor creates a
\* setup; otherwise it destroys the setup the filter has, if any, and
\* creates one setup.  Afterwards the memoized frequency, resonance and
\* channel count are the arguments.
C18_InterpolateOrRebuild ==
    (bh.op = "calculateParams" /\ bh.path # "skip") =>
        /\ IF bh.hadSetup /\ bh.sameChannels
           THEN /\ bh.targeted = 1 /\ bh.destroyed = 0 /\ bh.created = 0
                /\ bq.setup_.targets = ArgumentCoefficients
           ELSE /\ bh.targeted = 0 /\ bh.created = 1
                /\ bh.destroyed = (IF bh.hadSetup THEN 1 ELSE 0)
        /\ bq.lastFrequency_ = bh.args.frequency
        /\ bq.lastResonance_ = bh.args.resonance
        /\ bq.lastNumChannels_ = bh.args.numChannels

\* new coefficients given as targets to the setup of two channels
C18_Witness ==
    /\ bh.op = "calculateParams" /\ bh.path = "interpolate"
    /\ bh.args.numChannels = MaxChannels
    /\ bq.setup_.targets = ArgumentCoefficients
    /\ bq.setup_.targets # bq.setup_.coefficients

\* a setup destroyed and one created for another channel count
C18_WitnessRebuild ==
    /\ bh.op = "calculateParams" /\ bh.path = "rebuild"
    /\ bh.hadSetup /\ ~bh.sameChannels /\ bh.args.numChannels > 0
    /\ bh.destroyed = 1 /\ bh.created = 1
    /\ bq.setup_.channels = bh.args.numChannels

\* C19: calculateParams with numChannels == 0 leaves the coefficient array,
\* the setup and the memoized frequency, resonance and channel count as
\* they were.
C19_ZeroChannelsNoOp ==
    (bh.op = "calculateParams" /\ bh.args.numChannels = 0) =>
        bh.keptF /\ bh.keptSetup /\ bh.keptLast

----------------------------------------------------------------------------
(***************************************************************************)
(* Properties of the FilterDSPKernel of Shared/Kernel                      *)
(***************************************************************************)

\* the coefficients of the kernel's parameters at its sample rate
CurrentCoefficients ==
    fill(Coefficients(fk.cutoff_, fk.resonance_, fk.nyquistPeriod_), fh.channels)

\* C15: the coefficients in effect for a render segment are those computed
\* from the Nyquist period of the format processing was started with, also
\* for the first segment after a format change that altered the sample rate
\* and nothing else.
C15_FormatChangeRecomputes ==
    fh.op = "handleRendering" => fk.filter_.F_ = CurrentCoefficients


\* C17: between startProcessing and stopProcessing no handleRendering makes
\* calculateParams destroy or create the setup, whatever the channel count
\* of the format.
C17_NoRebuildWhileRendering ==
    fh.op = "handleRendering" => fh.path # "rebuild"

----------------------------------------------------------------------------
(***************************************************************************)
(* Properties of the filter state of the AudioUnit/Support kernel          *)
(***************************************************************************)

\* C16: when setFormat has completed, x1, x2, y1 and y2 of every channel are
\* zero, also for a channel that rendered under the format before and that
\* the resize kept.
C16_FormatClearsState ==
    sh.op = "setFormat" => \A c \in DOMAIN sk.channelStates_ : sk.channelStates_[c] = FilterState

\* C20: while rendering without bypass every frame begins with x1, x2, y1
\* and y2 of every channel either zero or of a magnitude within minValue ..
\* maxValue: a value out of that range left by a frame is zero when the next
\* frame of the segment begins.
C20_SanitizedEveryFrame ==
    sh.op = "renderFrames" => ~sh.badAtFrame


\* C21: a parameter set or a scheduled parameter event for an address that
\* is neither the cutoff nor the resonance leaves both rampers (value, ramp
\* state, change counter) as they were; one for the cutoff leaves the
\* resonance ramper as it was, and one for the resonance the cutoff ramper.
C21_UnknownAddressIgnored ==
    sh.op \in {"setParameterValue", "handleParameterEvent"} =>
        /\ sh.address # FilterParamCutoff => sh.keptCutoff
        /\ sh.address # FilterParamResonance => sh.keptResonance

\* an event for an unknown address was handled, after a value was set
C21_Witness ==
    /\ sh.op = "handleParameterEvent"
    /\ sh.address \notin KnownAddresses
    /\ sh.keptCutoff /\ sh.keptResonance
    /\ sh.sets = MaxSets

\* a set for the cutoff changed the cutoff ramper only
C21_WitnessKnown ==
    /\ sh.op = "setParameterValue"
    /\ sh.address = FilterParamCutoff
    /\ ~sh.keptCutoff /\ sh.keptResonance

\* C22: getParameterValue of a known address returns the value last given to
\* that address, by setParameterValue or by a scheduled parameter event of
\* any ramp duration, whatever the progress of a ramp.
C22_ParameterRoundTrip ==
    (sh.op = "getParameterValue" /\ sh.address \in KnownAddresses
        /\ sh.last[sh.address] >= 0) => sh.got = sh.last[sh.address]


\* C23: the first segment after a cutoff event is rendered with the
\* coefficients of the new cutoff: they are the ones in effect in the setup
\* when the segment begins, not targets the setup moves towards.
C23_ZeroRampImmediate ==
    (fh.op = "handleRendering" /\ fh.afterCutoff /\ fh.path # "skip") =>
        /\ fk.filter_.setup_.coefficients = fk.filter_.F_
        /\ fk.filter_.setup_.targets = <<>>


\* C24: rendering a segment with the output buffers being the input buffers
\* gives the output samples and the kernel (filter state included) that
\* rendering it with output buffers apart from the input buffers gives.
C24_InPlaceSafe ==
    sh.op = "renderFrames" => sh.sameApart

\* two frames rendered in place by a filter that does not pass its input on
C24_Witness ==
    /\ sh.op = "renderFrames" /\ sh.inPlace /\ sh.sameApart
    /\ sh.frameCount > 1
    /\ ~sh.passed
    /\ \E c \in DOMAIN sk.channelStates_ : sk.channelStates_[c].x2 # 0


\* the filter holds the coefficients calculateParams gives for a cutoff
\* strictly between 0 and the Nyquist frequency the magnitudes were asked for
LowPassCoefficients ==
    \E a \in Arguments :
        /\ a.nyquistPeriod = bh.inverseNyquist
        /\ a.frequency > 0 /\ a.frequency < a.nyquistPeriod
        /\ a.numChannels > 0
        /\ bq.F_ = fill(Coefficients(a.frequency, a.resonance, a.nyquistPeriod),
                        a.numChannels)

\* C25: for coefficients calculateParams gives with a cutoff strictly between
\* 0 and Nyquist, magnitudes() reports 0 dB at frequency 0 and strictly less
\* at the Nyquist frequency than at frequency 0.
C25_LowPassShape ==
    (bh.op = "magnitudes" /\ LowPassCoefficients) =>
        /\ bh.magnitudes[1] = 0
        /\ bh.magnitudes[2] < bh.magnitudes[1]

\* the part of C25 about frequency 0
C25_UnityAtZero ==
    (bh.op = "magnitudes" /\ LowPassCoefficients) => bh.magnitudes[1] = 0


----------------------------------------------------------------------------
(***************************************************************************)
(* Properties of the events a render call is given                         *)
(***************************************************************************)

\* the event is a MIDI event or of a type renderEventsUntil has no case for
Inert(e) == e.eventType \notin {"Parameter"}

\* this step is renderEventsUntil passing the event under the cursor
Dispatches == pc = "events" /\ Len(calls') = Len(calls) + 1

\* the event at index i of the list has been passed by the cursor
Consumed(i) == \E j \in EventIdx : calls[j].i = i

\* C26: a MIDI event or an event of an unrecognised type changes no kernel
\* state (parameters, bypass, buffers), moves the cursor to the next event,
\* splits the rendering at its timestamp when that lies inside the buffer,
\* and every later event of the list that is due by the end of the buffer
\* is applied as well.
C26_InertEventsConsumed ==
    /\ [][ (Dispatches /\ Inert(lp.list[lp.events])) =>
              /\ kern' = kern /\ proc' = proc /\ mem' = mem
              /\ lp'.events = next(lp.list, lp.events)
              /\ calls'[Len(calls')].k \in {"doMIDIEvent", "none"}
         ]_vars
    /\ [](pc = "done" /\ Ascending(lp.list) =>
            \A i \in DOMAIN lp.list :
                (Inert(lp.list[i]) /\ Consumed(i)) =>
                    /\ (lp.t0 < TimeOf(i) /\ TimeOf(i) < lp.t0 + lp.frameCount) =>
                          /\ \E j \in RenderIdx : calls[j].off + calls[j].n = TimeOf(i) - lp.t0
                          /\ \E j \in RenderIdx : calls[j].off = TimeOf(i) - lp.t0
                    /\ \A m \in DOMAIN lp.list :
                          (m > i /\ TimeOf(m) <= lp.t0 + lp.frameCount) => Consumed(m))

\* a MIDI event inside the buffer split the rendering, and a parameter event
\* after it in the list changed the cutoff
C26_Witness ==
    /\ pc = "done"
    /\ Len(lp.list) = MaxScheduled
    /\ lp.list[1].eventType = "MIDI" /\ TimeOf(1) = lp.t0 + 1
    /\ lp.list[2].eventType = "Parameter"
    /\ lp.frameCount > 1
    /\ Cardinality(RenderIdx) = 2
    /\ Consumed(1) /\ Consumed(2)
    /\ kern.cutoff_ # InitialCutoff

\* an event of an unrecognised type was passed and a parameter event after it
C26_WitnessOther ==
    /\ pc = "done"
    /\ Len(lp.list) = MaxScheduled
    /\ lp.list[1].eventType = "Other"
    /\ lp.list[2].eventType = "Parameter"
    /\ Consumed(1) /\ Consumed(2)
    /\ kern.cutoff_ # InitialCutoff


\* the render steps of the call so far, in order
RenderSteps == SelectSeq(calls, IsRender)

\* C27: for an ascending event list, the render steps of a call each have at
\* least one frame, the first is at offset 0, each following one begins
\* where the one before it ended, none reaches beyond frameCount, once the
\* call is done their lengths sum to frameCount, and framesRemaining never
\* goes below zero.
C27_ExactFrameCoverage ==
    Ascending(lp.list) =>
        /\ \A j \in DOMAIN RenderSteps :
             /\ RenderSteps[j].n >= 1
             /\ RenderSteps[j].off = (IF j = 1 THEN 0
                                      ELSE RenderSteps[j - 1].off + RenderSteps[j - 1].n)
             /\ RenderSteps[j].off + RenderSteps[j].n <= lp.frameCount
        /\ pc = "done" => FramesBefore(Len(calls) + 1) = lp.frameCount
        /\ lp.framesRemaining >= 0

\* the same for lists whose events are all due by the end of the buffer
C27_CoverageOfDueLists ==
    (Ascending(lp.list) /\ \A i \in DOMAIN lp.list : TimeOf(i) <= lp.t0 + lp.frameCount)
        => /\ \A j \in DOMAIN RenderSteps :
                /\ RenderSteps[j].n >= 1
                /\ RenderSteps[j].off = (IF j = 1 THEN 0
                                         ELSE RenderSteps[j - 1].off + RenderSteps[j - 1].n)
                /\ RenderSteps[j].off + RenderSteps[j].n <= lp.frameCount
           /\ pc = "done" => FramesBefore(Len(calls) + 1) = lp.frameCount
           /\ lp.framesRemaining >= 0


\* the times the cursor passed the event at index i of the list
Passes(i) == {j \in EventIdx : calls[j].i = i}

\* C28: when render returns, every event of an ascending list with
\* timestamp <= T0 + frameCount has been passed to its handler exactly once,
\* late events and a call with frameCount = 0 included.
C28_EveryDueEventApplied ==
    (pc = "done" /\ Ascending(lp.list)) =>
        \A i \in DOMAIN lp.list :
            TimeOf(i) <= lp.t0 + lp.frameCount => Cardinality(Passes(i)) = 1

\* the same for calls with at least one frame
C28_DueEventsOfNonEmptyCalls ==
    (pc = "done" /\ Ascending(lp.list) /\ lp.frameCount > 0) =>
        \A i \in DOMAIN lp.list :
            TimeOf(i) <= lp.t0 + lp.frameCount => Cardinality(Passes(i)) = 1


\* C29: a render call returns after finitely many turns of its loop,
\* whatever the order of the events and wherever in the 64 bit range their
\* timestamps lie.
C29_RenderTerminates == (pc \in {"loop", "events"}) ~> (pc = "done")

\* the same for lists whose events all lie in the epoch of the call
C29_NearRenderTerminates ==
    (pc \in {"loop", "events"}
        /\ \A i \in DOMAIN lp.list : Epoch(lp.list[i]) = 0) ~> (pc = "done")


\* no processAndRender call is in progress
BetweenCalls == pc \in {"idle", "ready", "returned", "crashed"}

\* C30: whenever no processAndRender call is in progress, after a call that
\* succeeded as after one that failed, inputs_ and outputs_ are null and
\* ins_ and outs_ are empty; within a call ins_ and outs_ have one entry for
\* each buffer, and the input and output buffer lists have as many buffers.
C30_BufferViewsOneCall ==
    /\ BetweenCalls =>
         /\ ~proc.inputs_ /\ ~proc.outputs_
         /\ proc.ins_ = <<>> /\ proc.outs_ = <<>>
    /\ pc \in {"loop", "events", "done"} =>
         /\ proc.inputs_ /\ proc.outputs_
         /\ Len(proc.ins_) = Len(ib.list)
         /\ Len(proc.outs_) = Len(outList)
         /\ Len(ib.list) = Len(outList)

\* a call that rendered two channels has returned noErr
C30_Witness ==
    /\ pc = "returned"
    /\ st.status = "noErr"
    /\ st.step.n > 0
    /\ Len(outList) = MaxChannels
    /\ proc.ins_ = <<>> /\ ~proc.inputs_

\* a call whose pull failed has returned
C30_WitnessFailed ==
    /\ pc = "returned"
    /\ st.status = "kAudioUnitErr_Upstream"
    /\ proc.ins_ = <<>> /\ ~proc.inputs_


----------------------------------------------------------------------------
(***************************************************************************)
(* Properties of the input buffer classes                                  *)
(***************************************************************************)

\* C31: when the pull block is invoked, in every pull of every class, each
\* entry of the mutable list points at the storage of its channel in the
\* buffer's own AVAudioPCMBuffer and the buffer count is the allocated
\* count, whatever an earlier pull block stored in the list.
C31_PointersRestoredBeforePull ==
    ih.op = "pullInput" =>
        \A class \in InputClasses :
            /\ ih.handed[class].mNumberBuffers = Len(inb[class].list)
            /\ \A c \in DOMAIN ih.handed[class].list :
                 ih.handed[class].list[c].mData = Ptr("in", c)

\* a pull on lists of two buffers in which the pull block of the pull before
\* had stored its own pointers or count, and did so again
C31_Witness ==
    /\ ih.op = "pullInput"
    /\ ih.wasForeign
    /\ \A class \in InputClasses :
         /\ Len(inb[class].list) = MaxChannels
         /\ ~Foreign(ih.handed[class])
         /\ Foreign(inb[class])

\* the sizes declared for the buffers of a class are within its capacity
WithinCapacity(class) ==
    \A c \in DOMAIN ih.handed[class].list :
        ih.handed[class].list[c].mDataByteSize <= inb[class].maxFrames * SizeofFloat

\* C32: on every pull, the byte size declared for each buffer handed to the
\* pull block is at most maxFrames * sizeof(float), for every frameCount.
C32_DeclaredSizeWithinCapacity ==
    ih.op = "pullInput" => \A class \in InputClasses : WithinCapacity(class)

\* the same for the two classes of AudioUnit/Support
C32_SupportClassesWithinCapacity ==
    ih.op = "pullInput" =>
        \A class \in InputClasses \ {"InputBuffer"} : WithinCapacity(class)


\* C33: a processAndRender call made while the input buffer is not
\* allocated (before startProcessing or after stopProcessing) does not go
\* through the released buffer lists: it returns an error status with no
\* render step and no event handler invoked.
C33_RenderOutsideLifecycle ==
    /\ pc # "crashed"
    /\ (~ib.allocated /\ pc \notin {"idle", "ready"}) =>
         /\ pc = "returned"
         /\ st.status \notin {"noErr", "none"}
         /\ calls = <<>>

\* the same for calls that are given no pull block
C33_NoBlockOutsideLifecycle ==
    (~ib.allocated /\ pc \notin {"idle", "ready", "crashed"}) =>
         /\ pc = "returned"
         /\ st.status = "kAudioUnitErr_NoConnection"
         /\ calls = <<>>


\* this step is a setValue(value, duration) with duration > 0 made while a
\* ramp was in progress
Retargets == h'.op = "setValueRamped" /\ h'.began /\ h'.dur > 0 /\ isRamping(ramper)

----------------------------------------------------------------------------
(***************************************************************************)
(* Properties of magnitudes running beside calculateParams                 *)
(***************************************************************************)

\* every coefficient read was stored, and the five are one of the sets
OneCompleteSet(seen) ==
    /\ \A i \in DOMAIN seen : seen[i].written
    /\ [i \in DOMAIN seen |-> seen[i].value] \in CompleteSets

\* C35: the five coefficients a magnitudes call has read, while
\* calculateParams changed the coefficients on the render thread, are those
\* of one complete coefficient set.
C35_CoefficientReadsNotTorn ==
    (tr.pc = "reading" /\ Len(tr.seen) > A2) => OneCompleteSet(tr.seen)

\* the same for magnitudes calls during which calculateParams did not run
C35_QuietReadsComplete ==
    (tr.pc = "reading" /\ Len(tr.seen) > A2 /\ ~tr.rebuilt) => OneCompleteSet(tr.seen)


----------------------------------------------------------------------------
(***************************************************************************)
(* Properties of ParameterRamper::stepBy                                   *)
(***************************************************************************)

\* the ramper after n calls of step()
RECURSIVE stepTimes(_, _)
stepTimes(r, n) == IF n = 0 THEN r ELSE stepTimes(step(r), n - 1)

\* C36: in every state of the ramper stepBy(n) leaves what n calls of
\* step() leave, for every n >= 0, and under every sequence of step, stepBy
\* and getAndStep the samples remaining stay between zero and the duration
\* of the ramp started last.
C36_StepByAgreesWithStep ==
    /\ \A n \in 0..(MaxRamp + 1) : stepBy(ramper, n) = stepTimes(ramper, n)
    /\ ramper.samplesRemaining_ >= 0
    /\ ramper.samplesRemaining_ <= h.dur

\* a stepBy during a ramp of more frames than the ramp had left
C36_Witness ==
    /\ h.op = "stepBy"
    /\ ~h.wasDone
    /\ h.dur > 0
    /\ h.steps > h.dur
    /\ ramper.samplesRemaining_ = 0


----------------------------------------------------------------------------
(***************************************************************************)
(* Properties of the LFO                                                   *)
(***************************************************************************)

\* the phase of an LFO that exists is inside its table
PhaseInRange ==
    lt.pc # "none" => (0 <= lfo.phase_ /\ lfo.phase_ < lfo.size_ * PhaseUnit)

\* C37: once started with frequencies above zero, whatever their ratio,
\* every tick() leaves 0 <= phase < size, so the two table indices of each
\* tick are in [0, size); reset() sets the phase to 0 and leaves the
\* increment.
C37_PhaseStaysInRange ==
    /\ [](PhaseInRange
          /\ (lt.op = "tick" => /\ lt.index1 \in 0..(lfo.size_ - 1)
                                /\ lt.index2 \in 0..(lfo.size_ - 1)))
    /\ [][lt'.op = "reset" => lfo'.phase_ = 0 /\ lfo'.increment_ = lfo.increment_]_vars

\* the same for an LFO never started with an oscillator frequency above the
\* sample frequency
C37_InRangeUpToSampleFrequency ==
    /\ [](~lt.fast =>
            /\ PhaseInRange
            /\ (lt.op = "tick" => /\ lt.index1 \in 0..(lfo.size_ - 1)
                                  /\ lt.index2 \in 0..(lfo.size_ - 1)))
    /\ [][lt'.op = "reset" => lfo'.phase_ = 0 /\ lfo'.increment_ = lfo.increment_]_vars

=========================================================================
